---- MODULE Spec2Model ----
(***************************************************************************)
(* PlainView API: the event bus (sse.ts), the alert correlator and the     *)
(* incident routes (modules/incidents.ts), the mission routes              *)
(* (modules/missions-lite.ts), the ROS2 bridge (ros2-bridge.ts) and the    *)
(* FlowIQ telemetry pipeline (modules/flowiq.ts).                          *)
(*                                                                         *)
(* Time is Date.now() in whole seconds.  Absent optional values are        *)
(* NoTime (timestamps), NoId (ids, references) and NoStr (strings).        *)
(***************************************************************************)
EXTENDS Integers, Sequences, FiniteSets, TLC

VARIABLES
  now,            \* Date.now(), seconds
  listeners,      \* bus listeners of "event", in registration order
  failing,        \* stream clients whose write(ev) raises
  emitted,        \* events passed to bus.emit during the last step, in call order
  delivered,      \* listener invocations of the last step, in invocation order
  threw,          \* the last step's bus.emit raised to its caller
  incidents,      \* Map<string, Incident> in insertion order
  alertQueue,     \* alertQueue of incidents.ts
  nextUuid,       \* number of uuid() values handed out so far
  heap,           \* the Mission objects, by reference
  missions,       \* Map<string, Mission> in insertion order: id and object reference
  activeMission,  \* reference of the active mission object, NoId for null
  metricsHistory, \* flowiq.ts metricsHistory, oldest first
  anomalyHistory, \* flowiq.ts anomalyHistory, oldest first
  ros2Active,     \* flowiq.ts ros2Active
  pending,        \* samples whose processing waits at await db.insertMetric
  nodes,          \* ROS2Bridge.nodes
  loops,          \* the running setInterval telemetry loops of subscribeTelemetry
  telemetryBuffer,\* ROS2Bridge.telemetryBuffer
  heartbeatDue,   \* time at which the heartbeat monitor's interval fires next
  commandHistory, \* ROS2Bridge.commandHistory, in insertion order
  leaksHistory,   \* pipelineguard.ts leaksHistory, oldest first
  leakDue,        \* time at which the leak monitor's interval fires next
  tickTimers,     \* stream clients whose telemetry.tick interval is set
  closed,         \* stream clients whose connection has closed
  result,         \* what the last step answered its caller: "ok", "not_found", "error"; "none" for a callback
  alerts,         \* alertStore.ts alerts of the dashboard, in list order
  timelineEvents, \* alertStore.ts timelineEvents, in list order
  dismissTimers,  \* pending auto-dismiss setTimeout calls: alert id and due time
  nextStoreId,    \* number of ids the alert store has made so far
  returnedId,     \* the id the last addAlert call returned, NoId before the first
  valveStore,     \* valves.json: what store.upsertValve has persisted per valve
  actuationTimers \* pending actuation setTimeout calls, in the order they were set

busVars == <<listeners, failing, emitted, delivered, threw>>
incidentVars == <<incidents, alertQueue>>
missionVars == <<heap, missions, activeMission>>
flowVars == <<metricsHistory, anomalyHistory, ros2Active, pending>>
rosVars == <<nodes, loops, telemetryBuffer, heartbeatDue, commandHistory>>
pipelineVars == <<leaksHistory, leakDue>>
streamVars == <<tickTimers, closed>>
dashVars == <<alerts, timelineEvents, dismissTimers, nextStoreId, returnedId>>
valveVars == <<valveStore, actuationTimers>>
\* everything the API server holds; the dashboard store does not touch it
apiVars == <<listeners, failing, incidents, alertQueue, nextUuid, missionVars, flowVars,
             rosVars, pipelineVars, streamVars, valveVars>>
vars == <<now, listeners, failing, emitted, delivered, threw,
          incidents, alertQueue, nextUuid, heap, missions, activeMission,
          metricsHistory, anomalyHistory, ros2Active, pending,
          nodes, loops, telemetryBuffer, heartbeatDue, commandHistory,
          leaksHistory, leakDue, tickTimers, closed, result,
          alerts, timelineEvents, dismissTimers, nextStoreId, returnedId,
          valveStore, actuationTimers>>

NoTime == -1
NoId == 0
NoStr == ""

\* ---- bounds of the model ------------------------------------------------
MaxClients == 2
MaxAlerts == 2
MaxUpdates == 1
IncidentHorizon == 120
IncidentStep == 60
MaxMissions == 2
MissionHorizon == 5
MissionStep == 5
MaxSamples == 4
MaxLoops == 2
MaxJitter == 0
RosHorizon == 185
MaxCommands == 3
CommandHorizon == 5
HistoryHorizon == 2510
\* anomalies recorded in the long ingest run
AnomalyHorizon == 501
\* addAlert calls of the dashboard, and the time its clock runs to
MaxStoreAlerts == 2
MaxValveAlerts == 3
StoreHorizon == 3
\* actuate requests on known valves, and the time the actuation clock runs to
MaxActuations == 3
ActuationHorizon == 3

\* ---- program constants --------------------------------------------------
CorrelationWindow == 120

Clients == 1..MaxClients

HandleAlertListener == [kind |-> "handleAlert", client |-> NoId]
StreamListener(c) == [kind |-> "stream", client |-> c]

\* JavaScript truthiness of a number-or-undefined and of a string-or-undefined
TruthyNum(x) == x # NoId
TruthyStr(x) == x # NoStr

\* ---- incidents.ts ---------------------------------------------------------

createTimelineEvent(type, title, t) ==
  [timestamp |-> t, type |-> type, title |-> title]

\* a correlation that takes the first non-resolved incident of any age
correlateAlertsAnyOpen(incs, newAlert, t) ==
  LET open == { i \in 1..Len(incs) : incs[i].status # "resolved" }
  IN IF open # {} THEN CHOOSE i \in open : \A j \in open : i <= j ELSE NoId

\* index of the incident correlateAlerts returns, NoId for null
correlateAlerts(incs, newAlert, t) ==
  LET twoMinutesAgo == t - CorrelationWindow
      recent == { i \in 1..Len(incs) :
                    incs[i].status # "resolved" /\ incs[i].startedAt > twoMinutesAgo }
      hits == { i \in recent : Len(incs[i].detectionIds) > 0 }
  IN IF TruthyNum(newAlert.latitude) /\ TruthyNum(newAlert.longitude) /\ hits # {}
     THEN CHOOSE i \in hits : \A j \in hits : i <= j
     ELSE NoId

RECURSIVE EmitFrom(_, _, _)
RECURSIVE handleAlert(_, _)

\* one listener call of EventEmitter.emit; st is the state the call works on
Invoke(l, st, ev) ==
  LET st1 == [st EXCEPT !.delivered = Append(@, [listener |-> l, event |-> ev])]
  IN IF l.kind = "handleAlert" THEN handleAlert(st1, ev)
     ELSE IF l.client \in failing THEN [st1 EXCEPT !.threw = TRUE]
     ELSE st1

\* emit calling the listeners last-registered first
RECURSIVE EmitFromNewestFirst(_, _, _)
EmitFromNewestFirst(st, ev, i) ==
  IF i > Len(listeners) \/ st.threw THEN st
  ELSE EmitFromNewestFirst(Invoke(listeners[Len(listeners) + 1 - i], st, ev), ev, i + 1)

\* EventEmitter.emit: the listeners are called in registration order; an
\* exception of a listener leaves emit at once
EmitFrom(st, ev, i) ==
  IF i > Len(listeners) \/ st.threw THEN st
  ELSE EmitFrom(Invoke(listeners[i], st, ev), ev, i + 1)

Emit(st, ev) ==
  EmitFrom([st EXCEPT !.emitted = Append(@, ev)], ev, 1)

handleAlert(st, event) ==
  IF event.type # "alert.created" THEN st
  ELSE
    LET queued == [st EXCEPT !.alertQueue = Append(@, event)]
        existing == correlateAlerts(queued.incidents, event, now)
        alertId == IF TruthyNum(event.id) THEN event.id ELSE queued.nextUuid + 1
        used == IF TruthyNum(event.id) THEN queued.nextUuid ELSE queued.nextUuid + 1
    IN IF existing # NoId
       THEN
         LET upd == [queued EXCEPT
                       !.incidents[existing].alertIds = Append(@, alertId),
                       !.incidents[existing].timeline =
                          Append(@, createTimelineEvent("alert", "New alert", now)),
                       !.nextUuid = used]
         IN Emit(upd, [type |-> "incident.updated",
                       incidentId |-> queued.incidents[existing].id, at |-> now])
       ELSE
         \* the incident's uuid() is taken before the alert id's
         LET incId == queued.nextUuid + 1
             aId == IF TruthyNum(event.id) THEN event.id ELSE queued.nextUuid + 2
             incident == [id |-> incId,
                          status |-> "active",
                          startedAt |-> now,
                          resolvedAt |-> NoTime,
                          detectionIds |-> <<>>,
                          alertIds |-> <<aId>>,
                          rootCause |-> NoStr,
                          resolution |-> NoStr,
                          timeline |-> <<createTimelineEvent("alert", "Incident Started", now)>>]
             upd == [queued EXCEPT
                       !.incidents = Append(@, incident),
                       !.nextUuid = IF TruthyNum(event.id) THEN incId ELSE incId + 1]
         IN Emit(upd, [type |-> "incident.created", incidentId |-> incId, at |-> now])

\* the state a step's bus.emit calls work on
Start ==
  [incidents |-> incidents, alertQueue |-> alertQueue, nextUuid |-> nextUuid,
   emitted |-> <<>>, delivered |-> <<>>, threw |-> FALSE]

Commit(st) ==
  /\ incidents' = st.incidents
  /\ alertQueue' = st.alertQueue
  /\ nextUuid' = st.nextUuid
  /\ emitted' = st.emitted
  /\ delivered' = st.delivered
  /\ threw' = st.threw

\* ---- producers of alert.created ------------------------------------------

LeakPeriod == 10
LeaksCap == 100

\* a push that shifts as soon as the capacity is reached
PushCappedEarly(q, x, cap) ==
  LET r == Append(q, x) IN IF Len(r) >= cap THEN Tail(r) ELSE r

\* push, then shift while the array is over its capacity
PushCapped(q, x, cap) ==
  LET r == Append(q, x) IN IF Len(r) > cap THEN Tail(r) ELSE r

\* pipelineguard.ts: the leak monitor has detected a leak: it is pushed to the
\* bounded leaksHistory and an alert with coordinates is published
LeakEffect ==
  /\ leaksHistory' = PushCapped(leaksHistory,
                                [severity |-> "critical", detectedAt |-> now,
                                 status |-> "active"],
                                LeaksCap)
  /\ Commit(Emit(Start, [type |-> "alert.created", id |-> NoId, severity |-> "critical",
                         latitude |-> 40, longitude |-> 74, at |-> now]))

\* a tick of the leak monitor that detects a leak, at any time
LeakAlert ==
  /\ Len(alertQueue) < MaxAlerts
  /\ LeakEffect
  /\ UNCHANGED <<leakDue, streamVars, now, listeners, failing, missionVars, flowVars, rosVars>>
  /\ result' = "none"
  /\ UNCHANGED <<dashVars, valveVars>>

\* the leak monitor's interval fires and detects a leak
LeakMonitorTick ==
  /\ leakDue <= now
  /\ LeakEffect
  /\ leakDue' = now + LeakPeriod
  /\ UNCHANGED <<streamVars, now, listeners, failing, missionVars, flowVars, rosVars>>
  /\ result' = "none"
  /\ UNCHANGED <<dashVars, valveVars>>

\* valveops.ts: updateValveHealth publishes an alert without coordinates
ValveAlert ==
  /\ Len(alertQueue) < MaxAlerts
  /\ Commit(Emit(Start, [type |-> "alert.created", id |-> NoId, severity |-> "warning",
                         latitude |-> NoId, longitude |-> NoId, at |-> now]))
  /\ UNCHANGED <<pipelineVars, streamVars, now, listeners, failing, missionVars, flowVars, rosVars>>
  /\ result' = "none"
  /\ UNCHANGED <<dashVars, valveVars>>

\* ---- POST /incidents/:id/update ------------------------------------------

IncidentStatuses == {"active", "investigating", "mitigated", "resolved"}

IncidentIndex(id) ==
  LET hit == { i \in 1..Len(incidents) : incidents[i].id = id }
  IN IF hit = {} THEN NoId ELSE CHOOSE i \in hit : TRUE

\* timeline entries appended by updates so far
RECURSIVE TimelinePushes(_, _)
TimelinePushes(incs, n) ==
  IF n = 0 THEN 0 ELSE TimelinePushes(incs, n - 1) + Len(incs[n].timeline) - 1

UpdateStatus(old, status) ==
  IF TruthyStr(status) THEN status ELSE old

UpdateIncident(id, status, rootCause, resolution) ==
  LET i == IncidentIndex(id) IN
  /\ i # NoId
  /\ (TruthyStr(rootCause) \/ TruthyStr(resolution)) => TimelinePushes(incidents, Len(incidents)) < MaxUpdates
  /\ LET inc == incidents[i]
         s1 == [inc EXCEPT !.status = UpdateStatus(inc.status, status)]
         s2 == IF TruthyStr(rootCause)
               THEN [s1 EXCEPT !.rootCause = rootCause,
                               !.timeline = Append(@, createTimelineEvent(
                                               "update", "Root Cause Identified", now))]
               ELSE s1
         s3 == IF TruthyStr(resolution)
               THEN [s2 EXCEPT !.resolution = resolution,
                               !.status = "resolved",
                               !.resolvedAt = now,
                               !.timeline = Append(@, createTimelineEvent(
                                               "action", "Incident Resolved", now))]
               ELSE s2
         st == [Start EXCEPT !.incidents[i] = s3]
     IN Commit(Emit(st, [type |-> "incident.updated", incidentId |-> id, at |-> now]))
  /\ UNCHANGED <<pipelineVars, streamVars, now, listeners, failing, missionVars, flowVars, rosVars>>
  /\ result' = IF threw' THEN "error" ELSE "ok"
  /\ UNCHANGED <<dashVars, valveVars>>

UpdateIncidentNotFound(id) ==
  /\ IncidentIndex(id) = NoId
  /\ emitted' = <<>> /\ delivered' = <<>> /\ threw' = FALSE
  /\ UNCHANGED <<pipelineVars, streamVars, now, listeners, failing, incidents, alertQueue, nextUuid, missionVars, flowVars, rosVars>>
  /\ result' = "not_found"
  /\ UNCHANGED <<dashVars, valveVars>>

\* Array.prototype.sort with (a, b) => b.timestamp - a.timestamp: newest first,
\* entries of equal timestamp keep their order (the sort is stable)
RECURSIVE InsertNewestFirst(_, _)
InsertNewestFirst(sorted, e) ==
  IF sorted = <<>> THEN <<e>>
  ELSE IF Head(sorted).timestamp >= e.timestamp
       THEN <<Head(sorted)>> \o InsertNewestFirst(Tail(sorted), e)
       ELSE <<e>> \o sorted

RECURSIVE SortNewestFirst(_)
SortNewestFirst(q) ==
  IF q = <<>> THEN <<>>
  ELSE InsertNewestFirst(SortNewestFirst(SubSeq(q, 1, Len(q) - 1)), q[Len(q)])

\* GET /incidents/:id/timeline: not_found for an unknown id; otherwise
\* incident.timeline.sort(...) sorts the stored array and returns it
GetTimeline(id) ==
  LET i == IncidentIndex(id) IN
  /\ incidents' = IF i = NoId THEN incidents
                  ELSE [incidents EXCEPT ![i].timeline = SortNewestFirst(@)]
  /\ emitted' = <<>> /\ delivered' = <<>> /\ threw' = FALSE
  /\ UNCHANGED <<pipelineVars, streamVars, now, listeners, failing, alertQueue, nextUuid,
                 missionVars, flowVars, rosVars>>
  /\ result' = IF IncidentIndex(id) = NoId THEN "not_found" ELSE "ok"
  /\ UNCHANGED <<dashVars, valveVars>>

\* ---- sse.ts: GET /events ---------------------------------------------------

Connected == { listeners[i].client : i \in { j \in 1..Len(listeners) :
                                               listeners[j].kind = "stream" } }

\* a client connects: bus.on("event", listener), then the initial tick is
\* written to it directly
Connect(c) ==
  /\ c \notin Connected
  /\ listeners' = Append(listeners, StreamListener(c))
  /\ tickTimers' = tickTimers \cup {c}
  /\ closed' = closed \ {c}
  /\ emitted' = <<>>
  /\ delivered' = <<[listener |-> StreamListener(c),
                     event |-> [type |-> "telemetry.tick", at |-> now]]>>
  /\ threw' = FALSE
  /\ UNCHANGED <<pipelineVars, now, failing, incidents, alertQueue, nextUuid, missionVars,
                 flowVars, rosVars>>
  /\ result' = IF threw' THEN "error" ELSE "ok"
  /\ UNCHANGED <<dashVars, valveVars>>

\* the client's socket starts to reject writes
BreakStream(c) ==
  /\ c \in Connected
  /\ c \notin failing
  /\ failing' = failing \cup {c}
  /\ emitted' = <<>> /\ delivered' = <<>> /\ threw' = FALSE
  /\ UNCHANGED <<pipelineVars, streamVars, now, listeners, incidents, alertQueue, nextUuid,
                 missionVars, flowVars, rosVars>>
  /\ result' = "none"
  /\ UNCHANGED <<dashVars, valveVars>>

\* array.filter(x => x !== l), the order of the rest kept
RECURSIVE Without(_, _)
Without(q, l) ==
  IF q = <<>> THEN <<>>
  ELSE IF Head(q) = l THEN Without(Tail(q), l)
  ELSE <<Head(q)>> \o Without(Tail(q), l)

\* a close handler that only cancels the tick interval
DisconnectKeepsListener(c) ==
  /\ c \in Connected
  /\ tickTimers' = tickTimers \ {c}
  /\ closed' = closed \cup {c}
  /\ failing' = failing \ {c}
  /\ emitted' = <<>> /\ delivered' = <<>> /\ threw' = FALSE
  /\ UNCHANGED <<pipelineVars, now, listeners, incidents, alertQueue, nextUuid, missionVars,
                 flowVars, rosVars>>
  /\ result' = "none"
  /\ UNCHANGED <<dashVars, valveVars>>

\* the client's connection closes: clearInterval(interval), bus.off("event", listener)
Disconnect(c) ==
  /\ c \in Connected
  /\ tickTimers' = tickTimers \ {c}
  /\ listeners' = Without(listeners, StreamListener(c))
  /\ closed' = closed \cup {c}
  /\ failing' = failing \ {c}
  /\ emitted' = <<>> /\ delivered' = <<>> /\ threw' = FALSE
  /\ UNCHANGED <<pipelineVars, now, incidents, alertQueue, nextUuid, missionVars,
                 flowVars, rosVars>>
  /\ result' = "none"
  /\ UNCHANGED <<dashVars, valveVars>>

\* a client's tick interval fires: telemetry.tick is written to that client's
\* stream directly, not through the bus.  The period of the interval is not
\* modelled: a tick can come at any time while the interval is set.
StreamTick(c) ==
  /\ c \in tickTimers
  /\ emitted' = <<>>
  /\ delivered' = <<[listener |-> StreamListener(c),
                     event |-> [type |-> "telemetry.tick", at |-> now]]>>
  /\ threw' = (c \in failing)
  /\ UNCHANGED <<pipelineVars, streamVars, now, listeners, failing, incidents, alertQueue,
                 nextUuid, missionVars, flowVars, rosVars>>
  /\ result' = "none"
  /\ UNCHANGED <<dashVars, valveVars>>

\* ---- missions-lite.ts -------------------------------------------------------

\* one object per stored mission, and one more while start replaces a mission
Refs == 1..(MaxMissions + 1)

\* a heap cell that holds no object (title and createdAt are left out of Mission)
FreeCell == [id |-> NoId, type |-> NoStr, status |-> NoStr,
             startedAt |-> NoTime, completedAt |-> NoTime, timeline |-> <<>>,
             playbackSpeed |-> 0]

\* playbackSpeed is kept in tenths
DefaultSpeed == 10
MinSpeed == 1
MaxSpeed == 100

Min(a, b) == IF a < b THEN a ELSE b
Max(a, b) == IF a > b THEN a ELSE b

\* NaN: what Math.min and Math.max make of an undefined req.body.speed
NaNSpeed == -1

\* Math.min and Math.max: NaN if an argument converts to NaN
MathMin(a, b) == IF a = NaNSpeed \/ b = NaNSpeed THEN NaNSpeed ELSE Min(a, b)
MathMax(a, b) == IF a = NaNSpeed \/ b = NaNSpeed THEN NaNSpeed ELSE Max(a, b)

\* position of missions.get(id) in the map, NoId for undefined
MissionIndex(id) ==
  LET hit == { i \in 1..Len(missions) : missions[i].id = id }
  IN IF hit = {} THEN NoId ELSE CHOOSE i \in hit : TRUE

\* reference of missions.get(id)
MissionRef(id) == missions[MissionIndex(id)].ref

FreshRef(h) == CHOOSE r \in Refs : h[r] = FreeCell /\ \A q \in Refs : h[q] = FreeCell => r <= q

\* The heap after a step: objects no longer referenced by the map or by
\* activeMission are dropped, and the object of the i-th map entry is moved to
\* reference i (an object only activeMission refers to comes after them).
\* References are not observable, so this renaming changes no behaviour.
Moved(ms, r) ==
  LET hit == { i \in 1..Len(ms) : ms[i].ref = r }
  IN IF r = NoId THEN NoId
     ELSE IF hit = {} THEN Len(ms) + 1
     ELSE CHOOSE i \in hit : TRUE

MissionEffect(h, ms, am) ==
  /\ heap' = [r \in Refs |->
               IF \E q \in Refs : (q = am \/ \E i \in 1..Len(ms) : ms[i].ref = q)
                                    /\ Moved(ms, q) = r
               THEN h[CHOOSE q \in Refs : (q = am \/ \E i \in 1..Len(ms) : ms[i].ref = q)
                                           /\ Moved(ms, q) = r]
               ELSE FreeCell]
  /\ missions' = [i \in 1..Len(ms) |-> [ms[i] EXCEPT !.ref = Moved(ms, ms[i].ref)]]
  /\ activeMission' = Moved(ms, am)

\* activeMission?.id === m.id
ActiveIs(h, id) == activeMission # NoId /\ h[activeMission].id = id

\* POST /missions
CreateMission(timeline) ==
  /\ Len(missions) < MaxMissions
  /\ LET r == FreshRef(heap)
         mission == [id |-> nextUuid + 1, type |-> "replay", status |-> "draft",
                     startedAt |-> NoTime, completedAt |-> NoTime,
                     timeline |-> timeline, playbackSpeed |-> DefaultSpeed]
     IN MissionEffect([heap EXCEPT ![r] = mission],
                      Append(missions, [id |-> mission.id, ref |-> r]),
                      activeMission)
  /\ nextUuid' = nextUuid + 1
  /\ emitted' = <<>> /\ delivered' = <<>> /\ threw' = FALSE
  /\ UNCHANGED <<pipelineVars, streamVars, now, listeners, failing, incidents, alertQueue, flowVars, rosVars>>
  /\ result' = IF threw' THEN "error" ELSE "ok"
  /\ UNCHANGED <<dashVars, valveVars>>

\* start that keeps the started copy out of the map
StartMissionNotStored(id) ==
  /\ MissionIndex(id) # NoId
  /\ LET m == MissionRef(id)
         r == FreshRef(heap)
         started == [heap[m] EXCEPT !.status = "active", !.startedAt = now]
     IN MissionEffect([heap EXCEPT ![r] = started], missions, r)
  /\ Commit(Emit(Start, [type |-> "mission.started", missionId |-> id, at |-> now]))
  /\ UNCHANGED <<pipelineVars, streamVars, now, listeners, failing, flowVars, rosVars>>
  /\ result' = IF threw' THEN "error" ELSE "ok"
  /\ UNCHANGED <<dashVars, valveVars>>

\* POST /missions/:id/start
StartMission(id) ==
  /\ MissionIndex(id) # NoId
  /\ LET m == MissionRef(id)
         r == FreshRef(heap)
         started == [heap[m] EXCEPT !.status = "active", !.startedAt = now]
     IN MissionEffect([heap EXCEPT ![r] = started],
                      [missions EXCEPT ![MissionIndex(id)].ref = r],
                      r)
  /\ Commit(Emit(Start, [type |-> "mission.started", missionId |-> id, at |-> now]))
  /\ UNCHANGED <<pipelineVars, streamVars, now, listeners, failing, flowVars, rosVars>>
  /\ result' = IF threw' THEN "error" ELSE "ok"
  /\ UNCHANGED <<dashVars, valveVars>>

\* a pause that leaves the active-mission pointer alone
PauseMissionKeepsPointer(id) ==
  /\ MissionIndex(id) # NoId
  /\ LET m == MissionRef(id)
         h == [heap EXCEPT ![m].status = "paused"]
     IN MissionEffect(h, missions, activeMission)
  /\ emitted' = <<>> /\ delivered' = <<>> /\ threw' = FALSE
  /\ UNCHANGED <<pipelineVars, streamVars, now, listeners, failing, incidents, alertQueue, nextUuid, flowVars, rosVars>>
  /\ result' = IF threw' THEN "error" ELSE "ok"
  /\ UNCHANGED <<dashVars, valveVars>>

\* POST /missions/:id/pause
PauseMission(id) ==
  /\ MissionIndex(id) # NoId
  /\ LET m == MissionRef(id)
         h == [heap EXCEPT ![m].status = "paused"]
     IN MissionEffect(h, missions, IF ActiveIs(h, id) THEN NoId ELSE activeMission)
  /\ emitted' = <<>> /\ delivered' = <<>> /\ threw' = FALSE
  /\ UNCHANGED <<pipelineVars, streamVars, now, listeners, failing, incidents, alertQueue, nextUuid, flowVars, rosVars>>
  /\ result' = IF threw' THEN "error" ELSE "ok"
  /\ UNCHANGED <<dashVars, valveVars>>

\* POST /missions/:id/resume
ResumeMission(id) ==
  /\ MissionIndex(id) # NoId
  /\ LET m == MissionRef(id)
     IN MissionEffect([heap EXCEPT ![m].status = "active"], missions, m)
  /\ emitted' = <<>> /\ delivered' = <<>> /\ threw' = FALSE
  /\ UNCHANGED <<pipelineVars, streamVars, now, listeners, failing, incidents, alertQueue, nextUuid, flowVars, rosVars>>
  /\ result' = IF threw' THEN "error" ELSE "ok"
  /\ UNCHANGED <<dashVars, valveVars>>

\* stop that clears activeMission whatever it points to
StopMissionClearsPointer(id) ==
  /\ MissionIndex(id) # NoId
  /\ LET m == MissionRef(id)
         h == [heap EXCEPT ![m].status = "completed", ![m].completedAt = now]
     IN MissionEffect(h, missions, NoId)
  /\ Commit(Emit(Start, [type |-> "mission.completed", missionId |-> id, at |-> now]))
  /\ UNCHANGED <<pipelineVars, streamVars, now, listeners, failing, flowVars, rosVars>>
  /\ result' = IF threw' THEN "error" ELSE "ok"
  /\ UNCHANGED <<dashVars, valveVars>>

\* POST /missions/:id/stop
StopMission(id) ==
  /\ MissionIndex(id) # NoId
  /\ LET m == MissionRef(id)
         h == [heap EXCEPT ![m].status = "completed", ![m].completedAt = now]
     IN MissionEffect(h, missions, IF ActiveIs(h, id) THEN NoId ELSE activeMission)
  /\ Commit(Emit(Start, [type |-> "mission.completed", missionId |-> id, at |-> now]))
  /\ UNCHANGED <<pipelineVars, streamVars, now, listeners, failing, flowVars, rosVars>>
  /\ result' = IF threw' THEN "error" ELSE "ok"
  /\ UNCHANGED <<dashVars, valveVars>>

\* POST /missions/:id/setspeed
SetSpeed(id, speed) ==
  /\ MissionIndex(id) # NoId
  /\ LET m == MissionRef(id)
     IN MissionEffect([heap EXCEPT ![m].playbackSpeed = MathMax(MinSpeed, MathMin(MaxSpeed, speed))],
                      missions, activeMission)
  /\ emitted' = <<>> /\ delivered' = <<>> /\ threw' = FALSE
  /\ UNCHANGED <<pipelineVars, streamVars, now, listeners, failing, incidents, alertQueue, nextUuid, flowVars, rosVars>>
  /\ result' = IF threw' THEN "error" ELSE "ok"
  /\ UNCHANGED <<dashVars, valveVars>>

\* a branch that keeps the source's status
BranchMissionKeepsStatus(id) ==
  /\ MissionIndex(id) # NoId
  /\ Len(missions) < MaxMissions
  /\ LET source == heap[MissionRef(id)]
         r == FreshRef(heap)
         scenario == [source EXCEPT !.id = nextUuid + 1, !.type = "scenario"]
     IN MissionEffect([heap EXCEPT ![r] = scenario],
                      Append(missions, [id |-> scenario.id, ref |-> r]),
                      activeMission)
  /\ nextUuid' = nextUuid + 1
  /\ emitted' = <<>> /\ delivered' = <<>> /\ threw' = FALSE
  /\ UNCHANGED <<pipelineVars, streamVars, now, listeners, failing, incidents, alertQueue, flowVars, rosVars>>
  /\ result' = IF threw' THEN "error" ELSE "ok"
  /\ UNCHANGED <<dashVars, valveVars>>

\* POST /missions/:id/branch
BranchMission(id) ==
  /\ MissionIndex(id) # NoId
  /\ Len(missions) < MaxMissions
  /\ LET source == heap[MissionRef(id)]
         r == FreshRef(heap)
         scenario == [source EXCEPT !.id = nextUuid + 1, !.type = "scenario",
                                    !.status = "draft"]
     IN MissionEffect([heap EXCEPT ![r] = scenario],
                      Append(missions, [id |-> scenario.id, ref |-> r]),
                      activeMission)
  /\ nextUuid' = nextUuid + 1
  /\ emitted' = <<>> /\ delivered' = <<>> /\ threw' = FALSE
  /\ UNCHANGED <<pipelineVars, streamVars, now, listeners, failing, incidents, alertQueue, flowVars, rosVars>>
  /\ result' = IF threw' THEN "error" ELSE "ok"
  /\ UNCHANGED <<dashVars, valveVars>>

\* a not_found path that also drops the active-mission pointer
MissionNotFoundClearsPointer(id) ==
  /\ MissionIndex(id) = NoId
  /\ MissionEffect(heap, missions, NoId)
  /\ emitted' = <<>> /\ delivered' = <<>> /\ threw' = FALSE
  /\ UNCHANGED <<pipelineVars, streamVars, now, listeners, failing, incidents, alertQueue, nextUuid, flowVars, rosVars>>
  /\ result' = "not_found"
  /\ UNCHANGED <<dashVars, valveVars>>

\* any mission route with an id that is not in the map: { error: "not_found" }
MissionNotFound(id) ==
  /\ MissionIndex(id) = NoId
  /\ emitted' = <<>> /\ delivered' = <<>> /\ threw' = FALSE
  /\ UNCHANGED <<pipelineVars, streamVars, now, listeners, failing, incidents, alertQueue, nextUuid, missionVars, flowVars, rosVars>>
  /\ result' = "not_found"
  /\ UNCHANGED <<dashVars, valveVars>>

AdvanceMissionClock ==
  /\ now + MissionStep <= MissionHorizon
  /\ now' = now + MissionStep
  /\ emitted' = <<>> /\ delivered' = <<>> /\ threw' = FALSE
  /\ UNCHANGED <<pipelineVars, streamVars, listeners, failing, incidents, alertQueue, nextUuid, missionVars, flowVars, rosVars>>
  /\ result' = "none"
  /\ UNCHANGED <<dashVars, valveVars>>

\* ---- flowiq.ts ----------------------------------------------------------------

\* an absent field of a Partial<FlowMetrics>
NoMetric == -1

MetricsCap == 100
WindowSize == 10
MinWindow == 3
PressureThreshold == 100000
TempThreshold == 10

baselineMetrics ==
  [flowRateLpm |-> 150, pressurePa |-> 2500000, temperatureC |-> 45,
   timestamp |-> 0, source |-> "baseline"]

\* a ?? b
Coalesce(a, b) == IF a = NoMetric THEN b ELSE a

Abs(x) == IF x < 0 THEN -x ELSE x

\* array.slice(-n)
LastN(q, n) == IF Len(q) <= n THEN q ELSE SubSeq(q, Len(q) - n + 1, Len(q))

RECURSIVE SumOf(_, _, _)
SumOf(q, field, n) == IF n = 0 THEN 0 ELSE SumOf(q, field, n - 1) + q[n][field]

\* a detection whose high severities start at twice the threshold
detectAnomaliesInclusive(current, hist) ==
  LET recent == LastN(hist, WindowSize)
      n == Len(recent)
      sumFlow == SumOf(recent, "flowRateLpm", n)
      flowDev == Abs(n * current.flowRateLpm - sumFlow)
      sumPressure == SumOf(recent, "pressurePa", n)
      pressureDev == Abs(n * current.pressurePa - sumPressure)
      sumTemp == SumOf(recent, "temperatureC", n)
      tempDev == Abs(n * current.temperatureC - sumTemp)
      flowAnomaly ==
        IF 4 * flowDev > sumFlow
        THEN <<[type |-> "flow_rate_deviation",
                severity |-> IF 2 * flowDev > sumFlow THEN "high" ELSE "medium",
                actualValue |-> current.flowRateLpm]>>
        ELSE <<>>
      pressureAnomaly ==
        IF pressureDev > PressureThreshold * n
        THEN <<[type |-> "pressure_deviation",
                severity |-> IF pressureDev >= 2 * PressureThreshold * n
                             THEN "high" ELSE "low",
                actualValue |-> current.pressurePa]>>
        ELSE <<>>
      tempAnomaly ==
        IF tempDev > TempThreshold * n
        THEN <<[type |-> "temperature_spike",
                severity |-> IF tempDev >= 2 * TempThreshold * n
                             THEN "high" ELSE "medium",
                actualValue |-> current.temperatureC]>>
        ELSE <<>>
  IN IF n >= MinWindow THEN flowAnomaly \o pressureAnomaly \o tempAnomaly ELSE <<>>

\* detectAnomalies(current) on the history hist.  A mean is sum / n; the
\* comparisons with it are multiplied through by n (and by 4 or 2 for the
\* factors 0.25 and 0.5), so they are exact on integers.  The anomaly ids,
\* detectedAt and expectedRange are left out.
detectAnomalies(current, hist) ==
  LET recent == LastN(hist, WindowSize)
      n == Len(recent)
      sumFlow == SumOf(recent, "flowRateLpm", n)
      flowDev == Abs(n * current.flowRateLpm - sumFlow)
      sumPressure == SumOf(recent, "pressurePa", n)
      pressureDev == Abs(n * current.pressurePa - sumPressure)
      sumTemp == SumOf(recent, "temperatureC", n)
      tempDev == Abs(n * current.temperatureC - sumTemp)
      flowAnomaly ==
        IF 4 * flowDev > sumFlow
        THEN <<[type |-> "flow_rate_deviation",
                severity |-> IF 2 * flowDev > sumFlow THEN "high" ELSE "medium",
                actualValue |-> current.flowRateLpm]>>
        ELSE <<>>
      pressureAnomaly ==
        IF pressureDev > PressureThreshold * n
        THEN <<[type |-> "pressure_deviation",
                severity |-> IF pressureDev > 2 * PressureThreshold * n
                             THEN "high" ELSE "low",
                actualValue |-> current.pressurePa]>>
        ELSE <<>>
      tempAnomaly ==
        IF tempDev > TempThreshold * n
        THEN <<[type |-> "temperature_spike",
                severity |-> IF tempDev > 2 * TempThreshold * n
                             THEN "high" ELSE "medium",
                actualValue |-> current.temperatureC]>>
        ELSE <<>>
  IN IF n >= MinWindow THEN flowAnomaly \o pressureAnomaly \o tempAnomaly ELSE <<>>

\* a confidence that does not look at the severity
ConfidenceFlat(anom) == 95

\* confidence of an anomaly.detected event, in hundredths
Confidence(anom) == IF anom.severity = "high" THEN 95 ELSE 70

\* anomalies.forEach: push to anomalyHistory, then publish; an exception of
\* bus.emit ends the loop.  acc is the bus state and the anomaly history.
RECURSIVE RecordAnomalies(_, _, _)
RecordAnomalies(acc, anomalies, i) ==
  IF i > Len(anomalies) \/ acc.st.threw THEN acc
  ELSE RecordAnomalies(
         [st |-> Emit(acc.st, [type |-> "anomaly.detected",
                               anomalyType |-> anomalies[i].type,
                               confidence |-> Confidence(anomalies[i]),
                               at |-> now]),
          history |-> Append(acc.history, anomalies[i])],
         anomalies, i + 1)

\* the synchronous part of ingestFlowTelemetry(sample), up to await db.insertMetric
IngestSample(sample) ==
  LET last == IF metricsHistory # <<>> THEN metricsHistory[Len(metricsHistory)]
              ELSE baselineMetrics
  IN [flowRateLpm |-> Coalesce(sample.flowRateLpm, last.flowRateLpm),
      pressurePa |-> Coalesce(sample.pressurePa, last.pressurePa),
      temperatureC |-> Coalesce(sample.temperatureC, last.temperatureC),
      timestamp |-> now,
      source |-> "ros2"]

IngestEffect(sample) ==
  /\ ros2Active' = TRUE
  /\ metricsHistory' = PushCapped(metricsHistory, IngestSample(sample), MetricsCap)
  /\ pending' = Append(pending, IngestSample(sample))
  /\ UNCHANGED anomalyHistory

\* one call of ingestFlowTelemetry(sample), up to await db.insertMetric
IngestCall(sample) ==
  /\ IngestEffect(sample)
  /\ emitted' = <<>> /\ delivered' = <<>> /\ threw' = FALSE
  /\ UNCHANGED <<pipelineVars, streamVars, now, listeners, failing, incidents, alertQueue, nextUuid,
                 missionVars, rosVars>>
  /\ result' = "none"
  /\ UNCHANGED <<dashVars, valveVars>>

\* ingestFlowTelemetry called from outside the bridge
IngestFlowTelemetry(sample) ==
  /\ Len(metricsHistory) < MaxSamples
  /\ IngestCall(sample)

\* a generator that ignores ros2Active
GeneratorTickUnguarded(sample) ==
  /\ Len(metricsHistory) < MaxSamples
  /\ metricsHistory' = PushCapped(metricsHistory, sample, MetricsCap)
  /\ pending' = Append(pending, sample)
  /\ emitted' = <<>> /\ delivered' = <<>> /\ threw' = FALSE
  /\ UNCHANGED <<pipelineVars, streamVars, now, listeners, failing, incidents, alertQueue, nextUuid,
                 missionVars, rosVars, anomalyHistory, ros2Active>>
  /\ result' = "none"
  /\ UNCHANGED <<dashVars, valveVars>>

\* collectionInterval fires: nothing when ros2Active, else a sample around the
\* baseline is pushed and its processing waits at await db.insertMetric
GeneratorTick(sample) ==
  /\ Len(metricsHistory) < MaxSamples
  /\ IF ros2Active
     THEN UNCHANGED <<metricsHistory, pending>>
     ELSE /\ metricsHistory' = PushCapped(metricsHistory, sample, MetricsCap)
          /\ pending' = Append(pending, sample)
  /\ emitted' = <<>> /\ delivered' = <<>> /\ threw' = FALSE
  /\ UNCHANGED <<pipelineVars, streamVars, now, listeners, failing, incidents, alertQueue, nextUuid,
                 missionVars, rosVars, anomalyHistory, ros2Active>>
  /\ result' = "none"
  /\ UNCHANGED <<dashVars, valveVars>>

\* db.insertMetric resolves for the k-th waiting sample: the rest of
\* ingestFlowTelemetry, or of the generator callback, runs
ResumeFlow(k) ==
  /\ k \in 1..Len(pending)
  /\ LET current == pending[k]
         anomalies == detectAnomalies(current, metricsHistory)
         acc == RecordAnomalies([st |-> Start, history |-> anomalyHistory], anomalies, 1)
         done == IF acc.st.threw THEN acc.st
                 ELSE Emit(acc.st, [type |-> "flow.metrics.updated",
                                    metrics |-> current])
     IN /\ anomalyHistory' = acc.history
        /\ Commit(done)
  /\ pending' = [i \in 1..(Len(pending) - 1) |->
                   IF i < k THEN pending[i] ELSE pending[i + 1]]
  /\ UNCHANGED <<pipelineVars, streamVars, now, listeners, failing, missionVars, rosVars,
                 metricsHistory, ros2Active>>
  /\ result' = "none"
  /\ UNCHANGED <<dashVars, valveVars>>

\* samples the generator can produce: the baseline with noise, floored
GeneratedSamples ==
  { [flowRateLpm |-> Max(100, baselineMetrics.flowRateLpm + nz[1]),
     pressurePa |-> Max(2300000, baselineMetrics.pressurePa + nz[2]),
     temperatureC |-> Max(20, baselineMetrics.temperatureC + nz[3]),
     timestamp |-> now,
     source |-> "mock"] : nz \in {<<-4, -20000, -1>>, <<4, 20000, 1>>} }

\* samples handed to ingestFlowTelemetry: the bridge's flow reading, a flow
\* reading a third above it, and a full reading far from the baseline
IngestInputs ==
  { [flowRateLpm |-> 150, pressurePa |-> NoMetric, temperatureC |-> NoMetric],
    [flowRateLpm |-> 200, pressurePa |-> NoMetric, temperatureC |-> NoMetric],
    [flowRateLpm |-> 300, pressurePa |-> 2800000, temperatureC |-> 80] }

\* ---- ros2-bridge.ts -----------------------------------------------------------

TelemetryPeriod == 5
HeartbeatInterval == 30
OfflineTimeout == 60
TelemetryBufferCap == 1000

Robot == "/fleet/robots/robot_01"
Gateway == "/field/sensors/sensor_gateway_01"

\* the nodes initialize() registers, in registration order
InitialNodes ==
  << [nodeId |-> Robot, type |-> "robot",
      subscribe |-> {"/tf", "/sensor_data/imu", "/sensor_data/lidar"},
      publish |-> {"/cmd/velocity", "/cmd/mission"},
      lastSeen |-> 0, health |-> "ok"],
     [nodeId |-> Gateway, type |-> "gateway",
      subscribe |-> {"/sensor_data/pressure", "/sensor_data/flow"},
      publish |-> {"/alert/pressure_anomaly", "/alert/flow_anomaly"},
      lastSeen |-> 0, health |-> "ok"] >>

\* position of nodes.get(nodeId), NoId for undefined
NodeIndex(ns, nodeId) ==
  LET hit == { i \in 1..Len(ns) : ns[i].nodeId = nodeId }
  IN IF hit = {} THEN NoId ELSE CHOOSE i \in hit : TRUE

\* topic.includes("flow"), for the topics of the model
IsFlowTopic(topic) == topic \in {"/sensor_data/flow", "/alert/flow_anomaly"}

\* generateMockTelemetry(topic).flowRateLpm: 150 +- 10 on a flow topic, else undefined
MockFlowRate(topic) == IF IsFlowTopic(topic) THEN 150 ELSE NoMetric

\* Timers of one duration are kept in one list in the order in which they were
\* scheduled: of the telemetry loops that are due, the one scheduled first fires
FiresFirst(k) ==
  \A j \in 1..Len(loops) :
    loops[j].due <= now =>
      (loops[k].due < loops[j].due \/ (loops[k].due = loops[j].due /\ k <= j))

\* a subscribe that does not look at the node's subscribe set
SubscribeTelemetryAnyTopic(nodeId, topic) ==
  /\ NodeIndex(nodes, nodeId) # NoId
  /\ Len(loops) < MaxLoops
  /\ loops' = Append(loops, [nodeId |-> nodeId, topic |-> topic,
                             due |-> now + TelemetryPeriod])
  /\ emitted' = <<>> /\ delivered' = <<>> /\ threw' = FALSE
  /\ UNCHANGED <<pipelineVars, streamVars, now, listeners, failing, incidents, alertQueue, nextUuid,
                 missionVars, flowVars, nodes, telemetryBuffer, heartbeatDue,
                 commandHistory>>
  /\ result' = IF threw' THEN "error" ELSE "ok"
  /\ UNCHANGED <<dashVars, valveVars>>

\* POST /ros2/subscribe with a known node and a topic of its subscribe set
SubscribeTelemetry(nodeId, topic) ==
  /\ NodeIndex(nodes, nodeId) # NoId
  /\ topic \in nodes[NodeIndex(nodes, nodeId)].subscribe
  /\ Len(loops) < MaxLoops
  /\ loops' = Append(loops, [nodeId |-> nodeId, topic |-> topic,
                             due |-> now + TelemetryPeriod])
  /\ emitted' = <<>> /\ delivered' = <<>> /\ threw' = FALSE
  /\ UNCHANGED <<pipelineVars, streamVars, now, listeners, failing, incidents, alertQueue, nextUuid,
                 missionVars, flowVars, nodes, telemetryBuffer, heartbeatDue,
                 commandHistory>>
  /\ result' = IF threw' THEN "error" ELSE "ok"
  /\ UNCHANGED <<dashVars, valveVars>>

\* POST /ros2/subscribe with an unknown node or a topic outside its subscribe
\* set: emit("error") on the bridge raises, the route answers { error }
SubscribeRejected(nodeId, topic) ==
  /\ IF NodeIndex(nodes, nodeId) = NoId THEN TRUE
     ELSE topic \notin nodes[NodeIndex(nodes, nodeId)].subscribe
  /\ emitted' = <<>> /\ delivered' = <<>> /\ threw' = FALSE
  /\ UNCHANGED <<pipelineVars, streamVars, now, listeners, failing, incidents, alertQueue, nextUuid,
                 missionVars, flowVars, rosVars>>
  /\ result' = "error"
  /\ UNCHANGED <<dashVars, valveVars>>

\* nodes.set(nodeId, node): a known key keeps its place in the map's order, a
\* new key goes to the end
SetNode(ns, node) ==
  IF NodeIndex(ns, node.nodeId) = NoId THEN Append(ns, node)
  ELSE [ns EXCEPT ![NodeIndex(ns, node.nodeId)] = node]

\* registerNode(node): the node replaces whatever the map holds under its id,
\* then ros2.node.discovered goes to the bus
RegisterNode(node) ==
  /\ nodes' = SetNode(nodes, node)
  /\ Commit(Emit(Start, [type |-> "ros2.node.discovered", nodeId |-> node.nodeId,
                         nodeType |-> node.type, at |-> now]))
  /\ UNCHANGED <<pipelineVars, streamVars, now, listeners, failing, missionVars, flowVars,
                 loops, telemetryBuffer, heartbeatDue, commandHistory>>
  /\ result' = IF threw' THEN "error" ELSE "ok"
  /\ UNCHANGED <<dashVars, valveVars>>

\* a telemetry delivery that sets the health of its node back to ok
TelemetryTickRevives(k) ==
  /\ k \in 1..Len(loops)
  /\ loops[k].due <= now
  /\ FiresFirst(k)
  /\ NodeIndex(nodes, loops[k].nodeId) # NoId
  /\ LET nodeId == loops[k].nodeId
         topic == loops[k].topic
         sent == Emit(Start, [type |-> "ros2.telemetry", nodeId |-> nodeId,
                              topic |-> topic, at |-> now])
     IN /\ telemetryBuffer' = PushCapped(telemetryBuffer,
                                [nodeId |-> nodeId, topic |-> topic, timestamp |-> now],
                                TelemetryBufferCap)
        /\ Commit(sent)
        /\ IF ~sent.threw /\ IsFlowTopic(topic) /\ MockFlowRate(topic) # NoMetric
           THEN IngestEffect([flowRateLpm |-> MockFlowRate(topic),
                              pressurePa |-> NoMetric, temperatureC |-> NoMetric])
           ELSE UNCHANGED flowVars
        /\ loops' = [loops EXCEPT ![k].due = now + TelemetryPeriod]
        /\ nodes' = [nodes EXCEPT ![NodeIndex(nodes, nodeId)].health = "ok"]
  /\ UNCHANGED <<pipelineVars, streamVars, now, listeners, failing, missionVars, heartbeatDue,
                 commandHistory>>
  /\ result' = "none"
  /\ UNCHANGED <<dashVars, valveVars>>

\* the k-th telemetry loop's interval fires
TelemetryTick(k) ==
  /\ k \in 1..Len(loops)
  /\ loops[k].due <= now
  /\ FiresFirst(k)
  /\ IF NodeIndex(nodes, loops[k].nodeId) = NoId
     THEN \* clearInterval(mockInterval)
          /\ loops' = [i \in 1..(Len(loops) - 1) |->
                         IF i < k THEN loops[i] ELSE loops[i + 1]]
          /\ emitted' = <<>> /\ delivered' = <<>> /\ threw' = FALSE
          /\ UNCHANGED <<incidents, alertQueue, nextUuid, flowVars, telemetryBuffer>>
     ELSE LET nodeId == loops[k].nodeId
              topic == loops[k].topic
              sent == Emit(Start, [type |-> "ros2.telemetry", nodeId |-> nodeId,
                                   topic |-> topic, at |-> now])
          IN /\ telemetryBuffer' = PushCapped(telemetryBuffer,
                                     [nodeId |-> nodeId, topic |-> topic, timestamp |-> now],
                                     TelemetryBufferCap)
             /\ Commit(sent)
             /\ IF ~sent.threw /\ IsFlowTopic(topic) /\ MockFlowRate(topic) # NoMetric
                THEN IngestEffect([flowRateLpm |-> MockFlowRate(topic),
                                   pressurePa |-> NoMetric, temperatureC |-> NoMetric])
                ELSE UNCHANGED flowVars
             /\ loops' = [loops EXCEPT ![k].due = now + TelemetryPeriod]
  /\ UNCHANGED <<pipelineVars, streamVars, now, listeners, failing, missionVars, nodes, heartbeatDue,
                 commandHistory>>
  /\ result' = "none"
  /\ UNCHANGED <<dashVars, valveVars>>

\* a sweep that takes a node offline as soon as the timeout is reached
RECURSIVE SweepNodesAtTimeout(_, _, _)
SweepNodesAtTimeout(acc, t, i) ==
  IF i > Len(acc.nodes) \/ acc.st.threw THEN acc
  ELSE IF t - acc.nodes[i].lastSeen >= OfflineTimeout
       THEN SweepNodesAtTimeout(
              [nodes |-> [acc.nodes EXCEPT ![i].health = "offline", ![i].lastSeen = t],
               st |-> Emit(acc.st, [type |-> "ros2.node.offline",
                                    nodeId |-> acc.nodes[i].nodeId, at |-> t])],
              t, i + 1)
       ELSE SweepNodesAtTimeout(acc, t, i + 1)

\* the forEach of the heartbeat monitor: markNodeOffline for each node, in map
\* order, with now - lastSeen > 60 s; acc is the bus state and the nodes
RECURSIVE SweepNodes(_, _, _)
SweepNodes(acc, t, i) ==
  IF i > Len(acc.nodes) \/ acc.st.threw THEN acc
  ELSE IF t - acc.nodes[i].lastSeen > OfflineTimeout
       THEN SweepNodes(
              [nodes |-> [acc.nodes EXCEPT ![i].health = "offline", ![i].lastSeen = t],
               st |-> Emit(acc.st, [type |-> "ros2.node.offline",
                                    nodeId |-> acc.nodes[i].nodeId, at |-> t])],
              t, i + 1)
       ELSE SweepNodes(acc, t, i + 1)

\* the heartbeat monitor's interval fires
HeartbeatTick ==
  /\ heartbeatDue <= now
  /\ LET acc == SweepNodes([nodes |-> nodes, st |-> Start], now, 1)
     IN /\ nodes' = acc.nodes
        /\ Commit(acc.st)
  /\ heartbeatDue' = now + HeartbeatInterval
  /\ UNCHANGED <<pipelineVars, streamVars, now, listeners, failing, missionVars, flowVars, loops, telemetryBuffer,
                 commandHistory>>
  /\ result' = "none"
  /\ UNCHANGED <<dashVars, valveVars>>

\* the times at which a timer of the bridge is due
DueTimes == {heartbeatDue} \cup { loops[k].due : k \in 1..Len(loops) }

EarliestDue == CHOOSE t \in DueTimes : \A u \in DueTimes : t <= u

\* time passes until the next timer is due; the timer may fire late
AdvanceRosClock ==
  /\ \A t \in DueTimes : t > now
  /\ pending = <<>>
  /\ \E late \in {0, MaxJitter} :
       /\ EarliestDue + late <= RosHorizon
       /\ now' = EarliestDue + late
  /\ emitted' = <<>> /\ delivered' = <<>> /\ threw' = FALSE
  /\ UNCHANGED <<pipelineVars, streamVars, listeners, failing, incidents, alertQueue, nextUuid,
                 missionVars, flowVars, rosVars>>
  /\ result' = "none"
  /\ UNCHANGED <<dashVars, valveVars>>

\* time passes until the next timer of the bridge or of the leak monitor is due
AdvanceHistoryClock ==
  /\ \A t \in DueTimes \cup {leakDue} : t > now
  /\ pending = <<>>
  /\ LET next == CHOOSE t \in DueTimes \cup {leakDue} :
                    \A u \in DueTimes \cup {leakDue} : t <= u
     IN /\ next <= HistoryHorizon
        /\ now' = next
  /\ emitted' = <<>> /\ delivered' = <<>> /\ threw' = FALSE
  /\ UNCHANGED <<pipelineVars, streamVars, listeners, failing, incidents, alertQueue,
                 nextUuid, missionVars, flowVars, rosVars>>
  /\ result' = "none"
  /\ UNCHANGED <<dashVars, valveVars>>

\* ---- ros2-bridge.ts: commands ---------------------------------------------------

\* the delay of the acknowledgement timer, 0.5 s to 2.5 s, in whole seconds
AckDelays == {1, 2}

\* POST /ros2/command with a known node and a topic of its publish set: the
\* result is stored as pending and the acknowledgement timer is set.
\* command:sent goes to the bridge's own emitter (this.emit), which has no
\* listener; bus.emit is not called.  ackDue is the time the timer is due.
PublishCommand(nodeId, topic, delay) ==
  /\ NodeIndex(nodes, nodeId) # NoId
  /\ topic \in nodes[NodeIndex(nodes, nodeId)].publish
  /\ Len(commandHistory) < MaxCommands
  /\ now + delay <= CommandHorizon
  /\ commandHistory' = Append(commandHistory,
                              [commandId |-> Len(commandHistory) + 1,
                               status |-> "pending",
                               nodeId |-> nodeId,
                               timestamp |-> now,
                               ackDue |-> now + delay])
  /\ emitted' = <<>> /\ delivered' = <<>> /\ threw' = FALSE
  /\ UNCHANGED <<pipelineVars, streamVars, now, listeners, failing, incidents, alertQueue, nextUuid,
                 missionVars, flowVars, nodes, loops, telemetryBuffer, heartbeatDue>>
  /\ result' = IF threw' THEN "error" ELSE "ok"
  /\ UNCHANGED <<dashVars, valveVars>>

\* POST /ros2/command with an unknown node or a topic outside its publish set:
\* publishCommand throws, the route answers { error }
PublishCommandRejected(nodeId, topic) ==
  /\ IF NodeIndex(nodes, nodeId) = NoId THEN TRUE
     ELSE topic \notin nodes[NodeIndex(nodes, nodeId)].publish
  /\ emitted' = <<>> /\ delivered' = <<>> /\ threw' = FALSE
  /\ UNCHANGED <<pipelineVars, streamVars, now, listeners, failing, incidents, alertQueue, nextUuid,
                 missionVars, flowVars, rosVars>>
  /\ result' = "error"
  /\ UNCHANGED <<dashVars, valveVars>>

\* an acknowledgement timer that records the command as sent
AckCommandMarksSent(k) ==
  /\ k \in 1..Len(commandHistory)
  /\ commandHistory[k].ackDue # NoTime
  /\ commandHistory[k].ackDue <= now
  /\ commandHistory' =
       [commandHistory EXCEPT ![k].ackDue = NoTime,
                              ![k].status = IF @ = "pending" THEN "sent" ELSE @]
  /\ emitted' = <<>> /\ delivered' = <<>> /\ threw' = FALSE
  /\ UNCHANGED <<pipelineVars, streamVars, now, listeners, failing, incidents, alertQueue, nextUuid,
                 missionVars, flowVars, nodes, loops, telemetryBuffer, heartbeatDue>>
  /\ result' = "none"
  /\ UNCHANGED <<dashVars, valveVars>>

\* the acknowledgement timer of the k-th command fires: a pending result
\* becomes acked; command:acked goes to the bridge's own emitter
AckCommand(k) ==
  /\ k \in 1..Len(commandHistory)
  /\ commandHistory[k].ackDue # NoTime
  /\ commandHistory[k].ackDue <= now
  /\ commandHistory' =
       [commandHistory EXCEPT ![k].ackDue = NoTime,
                              ![k].status = IF @ = "pending" THEN "acked" ELSE @]
  /\ emitted' = <<>> /\ delivered' = <<>> /\ threw' = FALSE
  /\ UNCHANGED <<pipelineVars, streamVars, now, listeners, failing, incidents, alertQueue, nextUuid,
                 missionVars, flowVars, nodes, loops, telemetryBuffer, heartbeatDue>>
  /\ result' = "none"
  /\ UNCHANGED <<dashVars, valveVars>>

\* a second passes; a timer that is due fires before time moves on
AdvanceCommandClock ==
  /\ \A k \in 1..Len(commandHistory) :
       commandHistory[k].ackDue = NoTime \/ commandHistory[k].ackDue > now
  /\ now + 1 <= CommandHorizon
  /\ now' = now + 1
  /\ emitted' = <<>> /\ delivered' = <<>> /\ threw' = FALSE
  /\ UNCHANGED <<pipelineVars, streamVars, listeners, failing, incidents, alertQueue, nextUuid,
                 missionVars, flowVars, rosVars>>
  /\ result' = "none"
  /\ UNCHANGED <<dashVars, valveVars>>

\* ---- time ------------------------------------------------------------------

\* ---- alertStore.ts (dashboard) ---------------------------------------------------

\* duration undefined
NoDuration == -1

\* if (alert.duration): neither undefined nor 0
TruthyDuration(d) == d # NoDuration /\ d # 0

\* logTimelineEvent(event): the event is appended with a new id and Date.now()
logTimelineEvent(events, event, id) ==
  Append(events, [id |-> id, message |-> event.message, type |-> event.type,
                  severity |-> event.severity, timestamp |-> now])

\* state.alerts.filter((a) => a.id !== id)
RECURSIVE removeAlert(_, _)
removeAlert(list, id) ==
  IF list = <<>> THEN <<>>
  ELSE IF Head(list).id = id THEN removeAlert(Tail(list), id)
  ELSE <<Head(list)>> \o removeAlert(Tail(list), id)

\* an addAlert that does not log to the timeline
AddAlertUnlogged(alert) ==
  /\ nextStoreId < 2 * MaxStoreAlerts
  /\ LET id == nextStoreId + 1
     IN /\ alerts' = Append(alerts, [id |-> id, message |-> alert.message,
                                     severity |-> alert.severity,
                                     duration |-> alert.duration, timestamp |-> now])
        /\ timelineEvents' = timelineEvents
        /\ dismissTimers' = IF TruthyDuration(alert.duration)
                            THEN Append(dismissTimers, [id |-> id, due |-> now + alert.duration])
                            ELSE dismissTimers
        /\ returnedId' = id
  /\ nextStoreId' = nextStoreId + 2
  /\ emitted' = <<>> /\ delivered' = <<>> /\ threw' = FALSE
  /\ result' = "ok"
  /\ UNCHANGED <<now, apiVars>>

\* addAlert(alert): the alert is appended with a new id, a timeline event of
\* type alert is logged, a dismiss timer is set if a duration is given, and
\* the alert's id is returned.  The ids of alerts and of timeline events come
\* from Date.now() and Math.random(); they are modelled as never repeating.
AddAlert(alert) ==
  /\ nextStoreId < 2 * MaxStoreAlerts
  /\ LET id == nextStoreId + 1
     IN /\ alerts' = Append(alerts, [id |-> id, message |-> alert.message,
                                     severity |-> alert.severity,
                                     duration |-> alert.duration, timestamp |-> now])
        /\ timelineEvents' = logTimelineEvent(timelineEvents,
                                [message |-> alert.message, type |-> "alert",
                                 severity |-> alert.severity],
                                nextStoreId + 2)
        /\ dismissTimers' = IF TruthyDuration(alert.duration)
                            THEN Append(dismissTimers, [id |-> id, due |-> now + alert.duration])
                            ELSE dismissTimers
        /\ returnedId' = id
  /\ nextStoreId' = nextStoreId + 2
  /\ emitted' = <<>> /\ delivered' = <<>> /\ threw' = FALSE
  /\ result' = "ok"
  /\ UNCHANGED <<now, apiVars>>

\* removeAlert(id) called by the user interface; the alert's timer stays set
RemoveAlert(id) ==
  /\ alerts' = removeAlert(alerts, id)
  /\ emitted' = <<>> /\ delivered' = <<>> /\ threw' = FALSE
  /\ result' = "ok"
  /\ UNCHANGED <<now, apiVars, timelineEvents, dismissTimers, nextStoreId, returnedId>>

\* clearTimeline()
ClearTimeline ==
  /\ timelineEvents' = <<>>
  /\ emitted' = <<>> /\ delivered' = <<>> /\ threw' = FALSE
  /\ result' = "ok"
  /\ UNCHANGED <<now, apiVars, alerts, dismissTimers, nextStoreId, returnedId>>

\* a due timer fires before one that is due later or was set later
DismissFiresFirst(k) ==
  \A j \in 1..Len(dismissTimers) :
    dismissTimers[j].due <= now =>
      (dismissTimers[k].due < dismissTimers[j].due
         \/ (dismissTimers[k].due = dismissTimers[j].due /\ k <= j))

\* a dismiss timer that removes the oldest alert
DismissTimerFiresOldest(k) ==
  /\ k \in 1..Len(dismissTimers)
  /\ dismissTimers[k].due <= now
  /\ DismissFiresFirst(k)
  /\ alerts' = IF alerts = <<>> THEN alerts ELSE Tail(alerts)
  /\ dismissTimers' = [i \in 1..(Len(dismissTimers) - 1) |->
                         IF i < k THEN dismissTimers[i] ELSE dismissTimers[i + 1]]
  /\ emitted' = <<>> /\ delivered' = <<>> /\ threw' = FALSE
  /\ result' = "none"
  /\ UNCHANGED <<now, apiVars, timelineEvents, nextStoreId, returnedId>>

\* the k-th pending auto-dismiss timer fires: get().removeAlert(id)
DismissTimerFires(k) ==
  /\ k \in 1..Len(dismissTimers)
  /\ dismissTimers[k].due <= now
  /\ DismissFiresFirst(k)
  /\ alerts' = removeAlert(alerts, dismissTimers[k].id)
  /\ dismissTimers' = [i \in 1..(Len(dismissTimers) - 1) |->
                         IF i < k THEN dismissTimers[i] ELSE dismissTimers[i + 1]]
  /\ emitted' = <<>> /\ delivered' = <<>> /\ threw' = FALSE
  /\ result' = "none"
  /\ UNCHANGED <<now, apiVars, timelineEvents, nextStoreId, returnedId>>

\* the dashboard's clock moves on once every due timer has fired
AdvanceStoreClock ==
  /\ now < StoreHorizon
  /\ \A k \in 1..Len(dismissTimers) : dismissTimers[k].due > now
  /\ now' = now + 1
  /\ emitted' = <<>> /\ delivered' = <<>> /\ threw' = FALSE
  /\ result' = "none"
  /\ UNCHANGED <<apiVars, dashVars>>

\* alerts handed to addAlert: without a duration, with duration 0, and with
\* durations of one and two clock units
AlertInputs ==
  { [message |-> "Test alert", severity |-> "warning", duration |-> NoDuration],
    [message |-> "Zero", severity |-> "info", duration |-> 0],
    [message |-> "Auto dismiss", severity |-> "success", duration |-> 1],
    [message |-> "Remove me", severity |-> "error", duration |-> 2] }

NextStore ==
  \/ \E alert \in AlertInputs : AddAlert(alert)
  \/ \E id \in 1..(2 * MaxStoreAlerts) : RemoveAlert(id)
  \/ ClearTimeline
  \/ \E k \in 1..MaxStoreAlerts : DismissTimerFires(k)
  \/ AdvanceStoreClock

\* ---- valveops.ts ------------------------------------------------------------------

Day == 86400

ValveIds == {"v-101", "v-102", "v-103"}

\* valveInventory, in array order; estimatedMaintenance in seconds after startup
valveInventory ==
  << [id |-> "v-101", status |-> "ok", lastTorqueNm |-> NoId,
      temperature |-> 45, pressurePa |-> 2500000, estimatedMaintenance |-> 30 * Day],
     [id |-> "v-102", status |-> "warning", lastTorqueNm |-> 48,
      temperature |-> 62, pressurePa |-> 2800000, estimatedMaintenance |-> 7 * Day],
     [id |-> "v-103", status |-> "ok", lastTorqueNm |-> NoId,
      temperature |-> 42, pressurePa |-> 2400000, estimatedMaintenance |-> 45 * Day] >>

\* THRESHOLDS
TempWarning == 60
TempCritical == 75
PressureWarning == 2800000
PressureCritical == 3000000

\* what valves.json holds for a valve nothing was persisted for
NoValveState == [lastTorqueNm |-> NoId, lastActuationTime |-> NoTime]

\* valveInventory.find((x) => x.id === id): the index, NoId for undefined
ValveIndex(id) ==
  LET hit == { i \in 1..Len(valveInventory) : valveInventory[i].id = id }
  IN IF hit = {} THEN NoId ELSE CHOOSE i \in hit : TRUE

\* the status and the alert texts updateValveHealth computes for a valve
ValveHealth(valve) ==
  LET tempCritical == TruthyNum(valve.temperature) /\ valve.temperature > TempCritical
      tempWarning == ~tempCritical /\ TruthyNum(valve.temperature)
                       /\ valve.temperature > TempWarning
      s1 == IF tempCritical THEN "offline" ELSE IF tempWarning THEN "warning" ELSE "ok"
      a1 == IF tempCritical THEN <<"Critical temperature">>
            ELSE IF tempWarning THEN <<"High temperature">> ELSE <<>>
      pressCritical == TruthyNum(valve.pressurePa) /\ valve.pressurePa > PressureCritical
      pressWarning == ~pressCritical /\ TruthyNum(valve.pressurePa)
                        /\ valve.pressurePa > PressureWarning
      s2 == IF pressCritical THEN "offline"
            ELSE IF pressWarning /\ s1 # "offline" THEN "warning" ELSE s1
      a2 == IF pressCritical THEN Append(a1, "Critical pressure")
            ELSE IF pressWarning THEN Append(a1, "High pressure") ELSE a1
      overdue == valve.estimatedMaintenance <= now
  IN [status |-> IF overdue THEN "maintenance" ELSE s2,
      alerts |-> IF overdue THEN Append(a2, "Maintenance overdue") ELSE a2]

\* updateValveHealth(valve) on the bus state st: an alert is published if the
\* computed status differs from valve.status and there is an alert text.  The
\* valve handed in is a copy of the inventory entry; the returned copy with the
\* new status is not stored.
updateValveHealth(st, valve) ==
  LET health == ValveHealth(valve)
  IN IF health.status # valve.status /\ health.alerts # <<>>
     THEN Emit(st, [type |-> "alert.created", valveId |-> valve.id, id |-> NoId,
                    severity |-> IF health.status = "offline" THEN "critical"
                                 ELSE "warning",
                    latitude |-> NoId, longitude |-> NoId, at |-> now])
     ELSE st

\* the temperature drift GET /valves may add to its copy of a valve: a value
\* strictly between -1 and 1, at the whole degrees this model keeps
DriftInputs == {-1, 0, 1}

\* valveInventory.map(...) of GET /valves, from the i-th valve on; an
\* exception of bus.emit ends the map
RECURSIVE ListFrom(_, _, _)
ListFrom(st, drift, i) ==
  IF i > Len(valveInventory) \/ st.threw THEN st
  ELSE ListFrom(updateValveHealth(st, [valveInventory[i] EXCEPT
                                         !.temperature = @ + drift[i]]),
                drift, i + 1)

\* GET /valves
ListValves(drift) ==
  /\ Len(alertQueue) < MaxValveAlerts
  /\ Commit(ListFrom(Start, drift, 1))
  /\ result' = IF threw' THEN "error" ELSE "ok"
  /\ UNCHANGED <<now, listeners, failing, missionVars, flowVars, rosVars, pipelineVars,
                 streamVars, valveVars, dashVars>>

\* GET /valves/:id: null for an unknown id
GetValve(id) ==
  /\ Len(alertQueue) < MaxValveAlerts
  /\ IF ValveIndex(id) = NoId
     THEN /\ Commit(Start)
          /\ result' = "not_found"
     ELSE /\ Commit(updateValveHealth(Start, valveInventory[ValveIndex(id)]))
          /\ result' = IF threw' THEN "error" ELSE "ok"
  /\ UNCHANGED <<now, listeners, failing, missionVars, flowVars, rosVars, pipelineVars,
                 streamVars, valveVars, dashVars>>

\* GET /valves/:id/health: null for an unknown id
GetValveHealth(id) ==
  /\ Len(alertQueue) < MaxValveAlerts
  /\ IF ValveIndex(id) = NoId
     THEN /\ Commit(Start)
          /\ result' = "not_found"
     ELSE /\ Commit(updateValveHealth(Start, valveInventory[ValveIndex(id)]))
          /\ result' = IF threw' THEN "error" ELSE "ok"
  /\ UNCHANGED <<now, listeners, failing, missionVars, flowVars, rosVars, pipelineVars,
                 streamVars, valveVars, dashVars>>

\* time passes up to the next date at which a valve's maintenance is due
AdvanceToMaintenance ==
  /\ \E i \in 1..Len(valveInventory) : valveInventory[i].estimatedMaintenance > now
  /\ now' = LET due == { valveInventory[i].estimatedMaintenance :
                           i \in { j \in 1..Len(valveInventory) :
                                     valveInventory[j].estimatedMaintenance > now } }
            IN CHOOSE t \in due : \A u \in due : t <= u
  /\ emitted' = <<>> /\ delivered' = <<>> /\ threw' = FALSE
  /\ result' = "none"
  /\ UNCHANGED <<listeners, failing, incidents, alertQueue, nextUuid, missionVars, flowVars,
                 rosVars, pipelineVars, streamVars, valveVars, dashVars>>

\* the delay of the actuation timer, 1000 to 1400 ms, in seconds
ActuationDelay == 1

\* torques of a completed actuation, 50 +- 2.5 Nm
TorqueInputs == {48, 52}

\* the timer callback without store.upsertValve
CompleteActuationUnpersisted(k, torque) ==
  /\ k \in 1..Len(actuationTimers)
  /\ actuationTimers[k].due <= now
  /\ UNCHANGED valveStore
  /\ Commit(Emit(Start, [type |-> "valve.actuation.completed",
                         valveId |-> actuationTimers[k].valveId,
                         torqueNm |-> torque, completedAt |-> now]))
  /\ actuationTimers' = [i \in 1..(Len(actuationTimers) - 1) |->
                           IF i < k THEN actuationTimers[i] ELSE actuationTimers[i + 1]]
  /\ result' = "none"
  /\ UNCHANGED <<now, listeners, failing, missionVars, flowVars, rosVars, pipelineVars,
                 streamVars, dashVars>>

\* POST /valves/:id/actuate: not_found for an unknown valve; otherwise
\* valve.actuation.requested is published and the actuation timer is set.  An
\* exception of bus.emit leaves the handler before setTimeout.
ActuateValve(id) ==
  /\ IF ValveIndex(id) = NoId
     THEN /\ Commit(Start)
          /\ UNCHANGED actuationTimers
          /\ result' = "not_found"
     ELSE /\ nextUuid < MaxActuations
          /\ now + ActuationDelay <= ActuationHorizon
          /\ Commit(Emit([Start EXCEPT !.nextUuid = @ + 1],
                         [type |-> "valve.actuation.requested", valveId |-> id,
                          requestedAt |-> now]))
          /\ actuationTimers' =
               IF threw' THEN actuationTimers
               ELSE Append(actuationTimers,
                           [actuationId |-> nextUuid + 1, valveId |-> id,
                            requestedAt |-> now, due |-> now + ActuationDelay])
          /\ result' = IF threw' THEN "error" ELSE "ok"
  /\ UNCHANGED <<now, listeners, failing, missionVars, flowVars, rosVars, pipelineVars,
                 streamVars, valveStore, dashVars>>

\* the k-th pending actuation timer fires: the torque is persisted with
\* store.upsertValve, then valve.actuation.completed is published.  Timers due
\* in the same second fire in either order (their delays differ by less).
CompleteActuation(k, torque) ==
  /\ k \in 1..Len(actuationTimers)
  /\ actuationTimers[k].due <= now
  /\ valveStore' = [valveStore EXCEPT ![actuationTimers[k].valveId] =
                      [lastTorqueNm |-> torque, lastActuationTime |-> now]]
  /\ Commit(Emit(Start, [type |-> "valve.actuation.completed",
                         valveId |-> actuationTimers[k].valveId,
                         torqueNm |-> torque, completedAt |-> now]))
  /\ actuationTimers' = [i \in 1..(Len(actuationTimers) - 1) |->
                           IF i < k THEN actuationTimers[i] ELSE actuationTimers[i + 1]]
  /\ result' = "none"
  /\ UNCHANGED <<now, listeners, failing, missionVars, flowVars, rosVars, pipelineVars,
                 streamVars, dashVars>>

\* a second passes once every due actuation timer has fired
AdvanceActuationClock ==
  /\ now < ActuationHorizon
  /\ \A k \in 1..Len(actuationTimers) : actuationTimers[k].due > now
  /\ now' = now + 1
  /\ emitted' = <<>> /\ delivered' = <<>> /\ threw' = FALSE
  /\ result' = "none"
  /\ UNCHANGED <<listeners, failing, incidents, alertQueue, nextUuid, missionVars, flowVars,
                 rosVars, pipelineVars, streamVars, valveVars, dashVars>>

ValveInputs == ValveIds \cup {"v-999"}

AdvanceIncidentClock ==
  /\ now + IncidentStep <= IncidentHorizon
  /\ now' = now + IncidentStep
  /\ emitted' = <<>> /\ delivered' = <<>> /\ threw' = FALSE
  /\ UNCHANGED <<pipelineVars, streamVars, listeners, failing, incidents, alertQueue, nextUuid, missionVars, flowVars, rosVars>>
  /\ result' = "none"
  /\ UNCHANGED <<dashVars, valveVars>>

\* ---- specifications --------------------------------------------------------

\* The server has started: registerIncidents has run, so handleAlert is the
\* first listener of the bus, and ros2Bridge.initialize() has registered its two
\* nodes and started the heartbeat monitor, all at time 0.
Init ==
  /\ now = 0
  /\ listeners = <<HandleAlertListener>>
  /\ failing = {}
  /\ emitted = <<>>
  /\ delivered = <<>>
  /\ threw = FALSE
  /\ incidents = <<>>
  /\ alertQueue = <<>>
  /\ nextUuid = 0
  /\ heap = [r \in Refs |-> FreeCell]
  /\ missions = <<>>
  /\ activeMission = NoId
  /\ metricsHistory = <<>>
  /\ anomalyHistory = <<>>
  /\ ros2Active = FALSE
  /\ pending = <<>>
  /\ nodes = InitialNodes
  /\ loops = <<>>
  /\ telemetryBuffer = <<>>
  /\ heartbeatDue = HeartbeatInterval
  /\ commandHistory = <<>>
  /\ leaksHistory = <<>>
  /\ leakDue = LeakPeriod
  /\ tickTimers = {}
  /\ closed = {}
  /\ result = "none"
  /\ alerts = <<>>
  /\ timelineEvents = <<>>
  /\ dismissTimers = <<>>
  /\ nextStoreId = 0
  /\ returnedId = NoId
  /\ valveStore = [v \in ValveIds |-> NoValveState]
  /\ actuationTimers = <<>>

UpdateInputs ==
  { <<s, rc, rs>> \in (IncidentStatuses \cup {NoStr}) \X {NoStr, "cause"} \X {NoStr, "fix"} : TRUE }

NextIncidents ==
  \/ LeakAlert
  \/ ValveAlert
  \/ \E id \in 1..(2 * MaxAlerts), in \in UpdateInputs :
       UpdateIncident(id, in[1], in[2], in[3])
  \/ \E id \in 1..(2 * MaxAlerts) : UpdateIncidentNotFound(id)
  \/ AdvanceIncidentClock

SpecIncidents == Init /\ [][NextIncidents]_vars

\* the incident routes with reads of the timeline
NextTimelines ==
  \/ LeakAlert
  \/ ValveAlert
  \/ \E id \in 1..(2 * MaxAlerts), in \in UpdateInputs :
       UpdateIncident(id, in[1], in[2], in[3])
  \/ \E id \in 1..(2 * MaxAlerts) : GetTimeline(id)
  \/ AdvanceIncidentClock

SpecTimelines == Init /\ [][NextTimelines]_vars

\* the bus with stream clients: alerts fan out to the correlator and the streams
NextBus ==
  \/ LeakAlert
  \/ ValveAlert
  \/ \E c \in Clients : Connect(c)
  \/ \E c \in Clients : BreakStream(c)
  \/ \E c \in Clients : Disconnect(c)
  \/ \E c \in Clients : StreamTick(c)
  \/ AdvanceIncidentClock

SpecBus == Init /\ [][NextBus]_vars

MissionIds == 1..MaxMissions
\* speeds of a setspeed request, in tenths; NaNSpeed for a body without speed
SpeedInputs == {0, 25, 200, NaNSpeed}

NextMissions ==
  \/ CreateMission(<<"step">>)
  \/ \E id \in MissionIds : StartMission(id)
  \/ \E id \in MissionIds : PauseMission(id)
  \/ \E id \in MissionIds : ResumeMission(id)
  \/ \E id \in MissionIds : StopMission(id)
  \/ \E id \in MissionIds, speed \in SpeedInputs : SetSpeed(id, speed)
  \/ \E id \in MissionIds : BranchMission(id)
  \/ \E id \in MissionIds : MissionNotFound(id)
  \/ AdvanceMissionClock

SpecMissions == Init /\ [][NextMissions]_vars

\* req.body.timeline of POST /missions: missing, or a list of steps
TimelineInputs == {<<>>, <<"step">>, <<"step", "step">>}

\* missions created with different timelines, started, paused, stopped and branched
NextBranch ==
  \/ \E timeline \in TimelineInputs : CreateMission(timeline)
  \/ \E id \in MissionIds : StartMission(id)
  \/ \E id \in MissionIds : PauseMission(id)
  \/ \E id \in MissionIds : StopMission(id)
  \/ \E id \in MissionIds : BranchMission(id)

SpecBranch == Init /\ [][NextBranch]_vars

\* ids a request can name: every uuid handed out, and more
RequestIds == 1..(2 * MaxAlerts + MaxMissions)

\* missions and incidents side by side, with requests for ids of either kind
NextNotFound ==
  \/ CreateMission(<<"step">>)
  \/ \E id \in RequestIds : StartMission(id)
  \/ \E id \in RequestIds : MissionNotFound(id)
  \/ LeakAlert
  \/ \E id \in RequestIds : UpdateIncident(id, "investigating", NoStr, NoStr)
  \/ \E id \in RequestIds : UpdateIncidentNotFound(id)

SpecNotFound == Init /\ [][NextNotFound]_vars

SpecStore == Init /\ [][NextStore]_vars

\* reads of the valves over the weeks in which their maintenance falls due
NextValveHealth ==
  \/ \E drift \in [1..Len(valveInventory) -> DriftInputs] : ListValves(drift)
  \/ \E id \in ValveInputs : GetValve(id)
  \/ \E id \in ValveInputs : GetValveHealth(id)
  \/ AdvanceToMaintenance

SpecValveHealth == Init /\ [][NextValveHealth]_vars

NextActuation ==
  \/ \E id \in ValveInputs : ActuateValve(id)
  \/ \E k \in 1..MaxActuations, torque \in TorqueInputs : CompleteActuation(k, torque)
  \/ AdvanceActuationClock

SpecActuation == Init /\ [][NextActuation]_vars

\* every actuation timer fires and the clock does not stop
FairSpecActuation ==
  /\ SpecActuation
  /\ WF_vars(AdvanceActuationClock)
  /\ \A k \in 1..MaxActuations :
       WF_vars(\E torque \in TorqueInputs : CompleteActuation(k, torque))

NextFlow ==
  \/ \E sample \in GeneratedSamples : GeneratorTick(sample)
  \/ \E sample \in IngestInputs : IngestFlowTelemetry(sample)
  \/ \E k \in 1..MaxSamples : ResumeFlow(k)

SpecFlow == Init /\ [][NextFlow]_vars

\* a reading at the baseline and one far from it
SwingInputs ==
  { [flowRateLpm |-> 150, pressurePa |-> 2500000, temperatureC |-> 45],
    [flowRateLpm |-> 300, pressurePa |-> 2800000, temperatureC |-> 80] }

\* the flow of the newest stored sample
LastFlow ==
  IF metricsHistory # <<>> THEN metricsHistory[Len(metricsHistory)].flowRateLpm
  ELSE baselineMetrics.flowRateLpm

\* a long run of ingestFlowTelemetry: each sample is processed before the next
\* arrives, and the readings swing between the two SwingInputs
NextAnomalies ==
  \/ /\ pending = <<>>
     /\ Len(anomalyHistory) < AnomalyHorizon
     /\ \E sample \in SwingInputs :
          sample.flowRateLpm # LastFlow /\ IngestCall(sample)
  \/ ResumeFlow(1)

SpecAnomalies == Init /\ [][NextAnomalies]_vars

NodeInputs == {Robot, Gateway, "/field/sensors/unknown"}
TopicInputs == {"/sensor_data/flow", "/tf", "/cmd/velocity"}

NextRos ==
  \/ \E n \in NodeInputs, t \in TopicInputs : SubscribeTelemetry(n, t)
  \/ \E n \in NodeInputs, t \in TopicInputs : SubscribeRejected(n, t)
  \/ \E k \in 1..MaxLoops : TelemetryTick(k)
  \/ \E k \in 1..MaxLoops : ResumeFlow(k)
  \/ HeartbeatTick
  \/ AdvanceRosClock

SpecRos == Init /\ [][NextRos]_vars

\* the robot as an agent announces itself again: healthy or degraded, seen now
RegisterInputs ==
  { [InitialNodes[1] EXCEPT !.health = h, !.lastSeen = now] : h \in {"ok", "degraded"} }

\* the life of a node: telemetry loops on the robot's topics subscribed at
\* startup, the heartbeat monitor, and the robot registering again
NextOffline ==
  \/ now = 0 /\ \E t \in {"/tf", "/sensor_data/imu"} : SubscribeTelemetry(Robot, t)
  \/ \E k \in 1..MaxLoops : TelemetryTick(k)
  \/ HeartbeatTick
  \/ \E node \in RegisterInputs : RegisterNode(node)
  \/ AdvanceRosClock

SpecOffline == Init /\ [][NextOffline]_vars

CommandTopicInputs == {"/cmd/velocity", "/alert/flow_anomaly", "/tf"}

NextCommands ==
  \/ \E n \in NodeInputs, t \in CommandTopicInputs, d \in AckDelays : PublishCommand(n, t, d)
  \/ \E n \in NodeInputs, t \in CommandTopicInputs : PublishCommandRejected(n, t)
  \/ \E k \in 1..MaxCommands : AckCommand(k)
  \/ AdvanceCommandClock

\* subscribe and command requests with valid and invalid nodes and topics,
\* before any timer fires
NextValidation ==
  \/ \E n \in NodeInputs, t \in TopicInputs : SubscribeTelemetry(n, t)
  \/ \E n \in NodeInputs, t \in TopicInputs : SubscribeRejected(n, t)
  \/ \E n \in NodeInputs, t \in CommandTopicInputs, d \in AckDelays : PublishCommand(n, t, d)
  \/ \E n \in NodeInputs, t \in CommandTopicInputs : PublishCommandRejected(n, t)

SpecValidation == Init /\ [][NextValidation]_vars

\* a long run of the timers that feed the bounded histories: the leak monitor,
\* and telemetry loops on the gateway's flow topic subscribed at startup
NextHistories ==
  \/ now = 0 /\ SubscribeTelemetry(Gateway, "/sensor_data/flow")
  \/ \E k \in 1..MaxLoops : TelemetryTick(k)
  \/ \E k \in 1..MaxLoops : ResumeFlow(k)
  \/ HeartbeatTick
  \/ LeakMonitorTick
  \/ AdvanceHistoryClock

SpecHistories == Init /\ [][NextHistories]_vars

SpecCommands == Init /\ [][NextCommands]_vars

\* setTimeout callbacks run once they are due, and time passes
FairSpecCommands ==
  /\ SpecCommands
  /\ WF_vars(AdvanceCommandClock)
  /\ \A k \in 1..MaxCommands : WF_vars(AckCommand(k))

\* ---- claims ------------------------------------------------------------------

\* the step handled an alert.created event
AlertHandled == emitted' # <<>> /\ emitted'[1].type = "alert.created"

\* incidents an alert handled now may be correlated with
OpenRecent == { i \in 1..Len(incidents) :
                 incidents[i].status # "resolved"
                 /\ incidents[i].startedAt > now - CorrelationWindow }

FirstOpenRecent == CHOOSE i \in OpenRecent : \A j \in OpenRecent : i <= j

\* C1: an alert.created handled while a non-resolved incident started within
\* the last 2 minutes exists creates no incident; the first such incident gets
\* one more alert id and one more timeline entry, incident.updated is published
C1_AlertJoinsOpenIncident ==
  [][ (AlertHandled /\ OpenRecent # {}) =>
        /\ Len(incidents') = Len(incidents)
        /\ Len(incidents'[FirstOpenRecent].alertIds)
             = Len(incidents[FirstOpenRecent].alertIds) + 1
        /\ Len(incidents'[FirstOpenRecent].timeline)
             = Len(incidents[FirstOpenRecent].timeline) + 1
        /\ \E k \in 1..Len(emitted') : emitted'[k].type = "incident.updated" ]_vars

\* C2: a resolved incident stays resolved under every update
C2_ResolvedIsFinal ==
  [][ \A i \in 1..Len(incidents) :
        incidents[i].status = "resolved" => incidents'[i].status = "resolved" ]_vars

\* position of an event among the events emitted in the step
EmitPos(e) == CHOOSE k \in 1..Len(emitted) : emitted[k] = e

\* C4: a publish calls every registered subscriber with the event, whether or
\* not one of them raises, and the failure does not reach the publisher
C4_FailureIsolated ==
  emitted # <<>> =>
    /\ ~threw
    /\ \A i \in 1..Len(listeners) :
         \E k \in 1..Len(delivered) :
           delivered[k] = [listener |-> listeners[i], event |-> emitted[1]]

\* the events a listener was called with in the step, in call order
RECURSIVE Received(_, _)
Received(l, n) ==
  IF n = 0 THEN <<>>
  ELSE IF delivered[n].listener = l
       THEN Append(Received(l, n - 1), delivered[n].event)
       ELSE Received(l, n - 1)

\* C5 (original): each subscriber is called with the events of a step in the
\* order in which they were emitted
C5_EmissionOrder ==
  emitted # <<>> =>
    \A a, b \in 1..Len(delivered) :
      (a < b /\ delivered[a].listener = delivered[b].listener)
        => EmitPos(delivered[a].event) <= EmitPos(delivered[b].event)

\* C5 (amended): dispatch is synchronous and depth-first: when the correlator
\* reacts to an alert.created, the correlator itself sees the alert first, and
\* every stream subscriber (registered after it) is called with the
\* correlator's incident event before the alert.created that caused it
C5_DepthFirstOrder ==
  (Len(emitted) = 2 /\ ~threw) =>
    \A i \in 1..Len(listeners) :
      Received(listeners[i], Len(delivered)) =
        IF listeners[i].kind = "stream"
        THEN <<emitted[2], emitted[1]>>
        ELSE <<emitted[1], emitted[2]>>

C5_Witness ==
  /\ Len(emitted) = 2
  /\ ~threw
  /\ emitted[1].type = "alert.created"
  /\ Connected # {}

\* the stored mission at position i of the map, before and after the step
StoredAt(i) == heap[missions[i].ref]
StoredAtNext(i) == heap'[missions'[i].ref]

\* C8: a completed mission stays completed under every mission operation
C8_CompletedIsFinal ==
  [][ \A i \in 1..Len(missions) :
        StoredAt(i).status = "completed" => StoredAtNext(i).status = "completed" ]_vars

\* C9: stop(id) on a draft, active or paused mission completes it, stamps
\* completedAt, publishes exactly one mission.completed, and sets the active
\* pointer to null exactly if it referred to that mission
C9_StopCompletes ==
  [][ \A id \in MissionIds :
        (StopMission(id) /\ StoredAt(MissionIndex(id)).status # "completed") =>
          LET i == MissionIndex(id) IN
          /\ StoredAtNext(i).status = "completed"
          /\ StoredAtNext(i).completedAt = now
          /\ emitted' = <<[type |-> "mission.completed", missionId |-> id, at |-> now]>>
          /\ activeMission' = IF activeMission # NoId /\ heap[activeMission].id = id
                              THEN NoId ELSE activeMission
          /\ (activeMission' # NoId => heap'[activeMission'] = heap[activeMission]) ]_vars

\* a stop has just completed a mission while the pointer refers to another one
C9_Witness ==
  /\ Len(emitted) = 1
  /\ emitted[1].type = "mission.completed"
  /\ activeMission # NoId
  /\ \E i \in 1..Len(missions) :
       /\ missions[i].id = emitted[1].missionId
       /\ StoredAt(i).status = "completed"
       /\ StoredAt(i).completedAt = now
       /\ missions[i].ref # activeMission

\* C10: start(id) on a draft mission stores it as active with startedAt
\* stamped, publishes mission.started and makes it the active pointer; every
\* other stored mission, a previously active one included, is left as it was
C10_StartActivates ==
  [][ \A id \in MissionIds :
        (StartMission(id) /\ StoredAt(MissionIndex(id)).status = "draft") =>
          LET i == MissionIndex(id) IN
          /\ StoredAtNext(i) = [StoredAt(i) EXCEPT !.status = "active", !.startedAt = now]
          /\ emitted' = <<[type |-> "mission.started", missionId |-> id, at |-> now]>>
          /\ activeMission' = missions'[i].ref
          /\ Len(missions') = Len(missions)
          /\ \A j \in 1..Len(missions) :
               j # i => /\ StoredAtNext(j) = StoredAt(j)
                        /\ missions'[j].id = missions[j].id
          /\ (activeMission # NoId => 
                \E j \in 1..Len(missions) :
                  /\ missions[j].ref = activeMission
                  /\ StoredAtNext(j).status = "active") ]_vars

\* a second mission has just been started while the first is still active
C10_Witness ==
  /\ Len(emitted) = 1
  /\ emitted[1].type = "mission.started"
  /\ activeMission # NoId
  /\ heap[activeMission].id = emitted[1].missionId
  /\ heap[activeMission].startedAt = now
  /\ \E j \in 1..Len(missions) :
       /\ missions[j].ref # activeMission
       /\ StoredAt(j).status = "active"

\* C3: each telemetry delivery of a loop sets the node's lastSeen to the
\* delivery time, and a node with a running telemetry loop keeps health ok
C3_TelemetryKeepsNodeAlive ==
  /\ [][ \A k \in 1..Len(loops) :
           TelemetryTick(k) =>
             nodes'[NodeIndex(nodes, loops[k].nodeId)].lastSeen = now ]_vars
  /\ [](\A k \in 1..Len(loops) :
           nodes[NodeIndex(nodes, loops[k].nodeId)].health = "ok")

\* the sources of the samples in the history, oldest first
RECURSIVE MockCount(_, _)
MockCount(q, n) ==
  IF n = 0 THEN 0
  ELSE MockCount(q, n - 1) + (IF q[n].source = "mock" THEN 1 ELSE 0)

\* C6: once ingestFlowTelemetry has been called the generator appends no
\* sample, and no generated sample follows an ingested one in the history
C6_GeneratorStopsAfterIngest ==
  /\ [][ ros2Active =>
           MockCount(metricsHistory', Len(metricsHistory'))
             <= MockCount(metricsHistory, Len(metricsHistory)) ]_vars
  /\ [](\A i, j \in 1..Len(metricsHistory) :
           (i < j /\ metricsHistory[i].source = "ros2")
             => metricsHistory[j].source = "ros2")

\* an ingested sample follows generated ones while a generated sample is still
\* waiting at its await
C6_Witness ==
  /\ ros2Active
  /\ \E i, j \in 1..Len(metricsHistory) :
       i < j /\ metricsHistory[i].source = "mock" /\ metricsHistory[j].source = "ros2"
  /\ \E k \in 1..Len(pending) : pending[k].source = "mock"
  /\ Len(metricsHistory) < MaxSamples

\* C7: a heartbeat-monitor tick leaves a node's health as it is while
\* now - lastSeen is at most 60 s and sets it to offline when it exceeds 60 s;
\* nothing else changes a node's health
C7_OfflineAfterTimeout ==
  [][ \A i \in 1..Len(nodes) :
        nodes'[i].health =
          IF heartbeatDue' # heartbeatDue /\ now - nodes[i].lastSeen > OfflineTimeout
          THEN "offline"
          ELSE nodes[i].health ]_vars

\* a tick has just marked a node offline that was still ok one tick earlier,
\* when now - lastSeen was exactly 60 s
C7_Witness ==
  /\ \E i \in 1..Len(nodes) :
       /\ nodes[i].health = "offline"
       /\ nodes[i].lastSeen = now
  /\ now = HeartbeatInterval + OfflineTimeout
  /\ \E k \in 1..Len(emitted) : emitted[k].type = "ros2.node.offline"

\* C11: an incident with status resolved has a resolution and a resolvedAt
C11_ResolvedHasResolution ==
  \A i \in 1..Len(incidents) :
    incidents[i].status = "resolved" =>
      /\ incidents[i].resolution # NoStr
      /\ incidents[i].resolvedAt # NoTime

\* C12: a step that changes the stored status of a mission publishes exactly
\* one event on the bus, and that event is about this mission
C12_StatusChangePublishes ==
  [][ \A i \in 1..Len(missions) :
        StoredAtNext(i).status # StoredAt(i).status =>
          /\ Len(emitted') = 1
          /\ emitted'[1].missionId = missions[i].id ]_vars

\* C13: mission.completed is published for a mission id at most once: once a
\* mission is stored as completed (which only stop does, and stop publishes
\* mission.completed), no later step publishes mission.completed for its id
C13_CompletedPublishedOnce ==
  [][ \A i \in 1..Len(missions) :
        StoredAt(i).status = "completed" =>
          \A k \in 1..Len(emitted') :
            ~(emitted'[k].type = "mission.completed"
              /\ emitted'[k].missionId = missions[i].id) ]_vars

\* C14: ros2.node.offline is published for a node only when the node goes
\* from another health to offline, never for a node that is already offline
C14_OfflinePublishedOncePerTransition ==
  [][ \A k \in 1..Len(emitted') :
        emitted'[k].type = "ros2.node.offline" =>
          nodes[NodeIndex(nodes, emitted'[k].nodeId)].health # "offline" ]_vars

\* C15: an accepted publishCommand publishes command.sent on the bus, and the
\* change of the result to acked publishes command.acked on the bus
C15_CommandEventsOnBus ==
  [][ /\ Len(commandHistory') > Len(commandHistory) =>
           \E k \in 1..Len(emitted') : emitted'[k].type = "command.sent"
      /\ \A c \in 1..Len(commandHistory) :
           (commandHistory[c].status = "pending" /\ commandHistory'[c].status = "acked") =>
             \E k \in 1..Len(emitted') : emitted'[k].type = "command.acked" ]_vars

\* C16: the result of an accepted command goes from pending to acked, this
\* is its only change of status, and it has no other status
C16_CommandAcked ==
  /\ \A c \in 1..MaxCommands :
       (Len(commandHistory) >= c /\ commandHistory[c].status = "pending")
         ~> (Len(commandHistory) >= c /\ commandHistory[c].status = "acked")
  /\ [][ \A c \in 1..Len(commandHistory) :
           commandHistory'[c].status # commandHistory[c].status =>
             (commandHistory[c].status = "pending" /\ commandHistory'[c].status = "acked") ]_vars
  /\ [](\A c \in 1..Len(commandHistory) :
           commandHistory[c].status \in {"pending", "acked"})

\* an earlier command has been acknowledged while a later one is still pending
C16_Witness ==
  \E c, d \in 1..Len(commandHistory) :
    /\ commandHistory[c].status = "acked"
    /\ commandHistory[c].timestamp < now
    /\ commandHistory[d].status = "pending"

\* severities of the anomalies of one type appended to the anomaly history by
\* the step, in order
NewSeverities(type) ==
  LET new == SubSeq(anomalyHistory', Len(anomalyHistory) + 1, Len(anomalyHistory'))
      OfType(a) == a.type = type
      sel == SelectSeq(new, OfType)
  IN [i \in 1..Len(sel) |-> sel[i].severity]

\* the samples received before the newest one, at most the 10 most recent
PriorWindow == LastN(SubSeq(metricsHistory, 1, Len(metricsHistory) - 1), WindowSize)

\* the only waiting sample is the newest of the history
NewestWaits ==
  /\ Len(pending) = 1
  /\ metricsHistory # <<>>
  /\ metricsHistory[Len(metricsHistory)] = pending[1]

\* C17: when the newest sample is processed with at least 3 samples received
\* before it, a flow_rate_deviation anomaly is produced exactly when its flow
\* differs from the mean flow of those earlier samples (at most 10) by more
\* than 25% of that mean, high above 50% and medium otherwise
C17_FlowAgainstPriorMean ==
  [][ (NewestWaits /\ ResumeFlow(1) /\ Len(PriorWindow) >= 3) =>
        LET m == Len(PriorWindow)
            sum == SumOf(PriorWindow, "flowRateLpm", m)
            dev == Abs(m * pending[1].flowRateLpm - sum)
        IN NewSeverities("flow_rate_deviation") =
             IF 4 * dev > sum
             THEN <<IF 2 * dev > sum THEN "high" ELSE "medium">>
             ELSE <<>> ]_vars

\* samples whose processing has completed (the history stays below its cap in
\* the model, so nothing has been shifted out)
Processed == Len(metricsHistory) - Len(pending)

\* C18: the first two samples processed after startup produce no anomaly
C18_FirstTwoSamplesNormal ==
  [][ ((\E k \in 1..Len(pending) : ResumeFlow(k)) /\ Processed < 2) =>
        /\ anomalyHistory' = anomalyHistory
        /\ \A e \in 1..Len(emitted') : emitted'[e].type # "anomaly.detected" ]_vars

\* the anomaly.detected event of an anomaly, as the claim states it
DetectedEvent(anom) ==
  [type |-> "anomaly.detected", anomalyType |-> anom.type,
   confidence |-> IF anom.severity = "high" THEN 95 ELSE 70, at |-> now]

\* C19: the anomalies detected for a sample are appended to the anomaly
\* history in order, each with one anomaly.detected event of confidence 0.95
\* for severity high and 0.7 otherwise, and no other anomaly.detected is published
C19_AnomaliesRecordedAndPublished ==
  [][ \A k \in 1..Len(pending) :
        ResumeFlow(k) =>
          LET anoms == detectAnomalies(pending[k], metricsHistory)
          IN /\ anomalyHistory' = anomalyHistory \o anoms
             /\ emitted' = [i \in 1..Len(anoms) |-> DetectedEvent(anoms[i])]
                             \o <<[type |-> "flow.metrics.updated", metrics |-> pending[k]]>> ]_vars

\* the last sample processed gave an anomaly of severity high and one of
\* another severity, both recorded and published
C19_Witness ==
  /\ \E i, j \in 1..Len(emitted) :
       /\ emitted[i].type = "anomaly.detected" /\ emitted[i].confidence = 95
       /\ emitted[j].type = "anomaly.detected" /\ emitted[j].confidence = 70
  /\ \E i, j \in 1..Len(anomalyHistory) :
       anomalyHistory[i].severity = "high" /\ anomalyHistory[j].severity # "high"

\* the window detectAnomalies takes its means over
Window == LastN(metricsHistory, WindowSize)

\* the severities the thresholds give for a deviation of n times dev from a
\* mean over n samples
ExpectedSeverities(dev, n, threshold, other) ==
  IF dev > threshold * n
  THEN <<IF dev > 2 * threshold * n THEN "high" ELSE other>>
  ELSE <<>>

\* C20: for a sample checked against the window mean, pressure_deviation is
\* produced exactly when |pressure - mean| > 100000, high above 200000 and low
\* otherwise; temperature_spike exactly when |temperature - mean| > 10, high
\* above 20 and medium otherwise; at most one of each per sample
C20_PressureAndTemperatureThresholds ==
  [][ \A k \in 1..Len(pending) :
        (ResumeFlow(k) /\ Len(Window) >= 3) =>
          LET n == Len(Window)
              pressureDev == Abs(n * pending[k].pressurePa - SumOf(Window, "pressurePa", n))
              tempDev == Abs(n * pending[k].temperatureC - SumOf(Window, "temperatureC", n))
          IN /\ NewSeverities("pressure_deviation")
                  = ExpectedSeverities(pressureDev, n, 100000, "low")
             /\ NewSeverities("temperature_spike")
                  = ExpectedSeverities(tempDev, n, 10, "medium") ]_vars

\* a sample 200000 Pa above its window mean has just been processed and gave a
\* pressure_deviation of severity low, and a temperature_spike is recorded too
C20_Witness ==
  /\ \E e \in 1..Len(emitted) :
       emitted[e].type = "anomaly.detected" /\ emitted[e].anomalyType = "pressure_deviation"
  /\ \E e \in 1..Len(emitted) :
       /\ emitted[e].type = "flow.metrics.updated"
       /\ Len(Window) * emitted[e].metrics.pressurePa - SumOf(Window, "pressurePa", Len(Window))
            = 200000 * Len(Window)
  /\ \E i, j \in 1..Len(anomalyHistory) :
       /\ anomalyHistory[i].type = "pressure_deviation" /\ anomalyHistory[i].severity = "low"
       /\ anomalyHistory[j].type = "temperature_spike"

\* new is old with one item pushed at the end, the oldest item dropped if old
\* already held cap items
Pushed(old, new, cap) ==
  /\ new # <<>>
  /\ new = (IF Len(old) < cap THEN old ELSE Tail(old)) \o <<new[Len(new)]>>

\* C21: the telemetry samples (capacity 100), the leak detections (capacity
\* 100) and the bridge's telemetry buffer (capacity 1000) never hold more than
\* their capacity; every push appends the new item and, once the capacity is
\* reached, drops exactly the oldest one, so the most recent items are held
\* in arrival order
C21_BoundedHistories ==
  /\ [](/\ Len(metricsHistory) <= 100
        /\ Len(leaksHistory) <= 100
        /\ Len(telemetryBuffer) <= 1000)
  /\ [][ /\ metricsHistory' = metricsHistory \/ Pushed(metricsHistory, metricsHistory', 100)
         /\ leaksHistory' = leaksHistory \/ Pushed(leaksHistory, leaksHistory', 100)
         /\ telemetryBuffer' = telemetryBuffer \/ Pushed(telemetryBuffer, telemetryBuffer', 1000)
         /\ LeakMonitorTick => Pushed(leaksHistory, leaksHistory', 100)
         /\ \A k \in 1..Len(loops) :
              TelemetryTick(k) =>
                /\ Pushed(telemetryBuffer, telemetryBuffer', 1000)
                /\ telemetryBuffer'[Len(telemetryBuffer')].timestamp = now
                /\ Pushed(metricsHistory, metricsHistory', 100)
                /\ metricsHistory'[Len(metricsHistory')].timestamp = now ]_vars

\* all three histories are full and have dropped their oldest items
C21_Witness ==
  /\ Len(telemetryBuffer) = 1000 /\ telemetryBuffer[1].timestamp > TelemetryPeriod
  /\ Len(metricsHistory) = 100 /\ metricsHistory[1].timestamp > TelemetryPeriod
  /\ Len(leaksHistory) = 100 /\ leaksHistory[1].detectedAt > LeakPeriod

\* C22: the anomaly history never holds more than 500 entries (the oldest is
\* evicted first when it is full).  ingestFlowTelemetry only pushes.
C22_AnomalyHistoryCapped == Len(anomalyHistory) <= 500

\* C23: a telemetry.tick is published through the bus, so every listener
\* registered on the bus when a stream's tick timer fires is called with it.
C23_TickReachesEverySubscriber ==
  [][\A c \in Clients :
       StreamTick(c) =>
         /\ \E i \in 1..Len(emitted') : emitted'[i].type = "telemetry.tick"
         /\ \A i \in 1..Len(listeners) :
              \E j \in 1..Len(delivered') :
                /\ delivered'[j].listener = listeners[i]
                /\ delivered'[j].event.type = "telemetry.tick"]_vars

\* C24: reading a timeline leaves the stored timeline unchanged, so the stored
\* timeline of every incident stays in insertion order (oldest entry first)
\* whatever reads and appends have happened.
C24_StoredTimelineInInsertionOrder ==
  /\ \A i \in 1..Len(incidents) :
       \A k \in 1..(Len(incidents[i].timeline) - 1) :
         incidents[i].timeline[k].timestamp <= incidents[i].timeline[k + 1].timestamp
  /\ \A i \in 1..Len(incidents) :
       incidents[i].timeline[1].title = "Incident Started"

\* emit calls of the step with the given type
EmittedOfType(type) == { k \in 1..Len(emitted') : emitted'[k].type = type }

\* the step added one incident seeded with the handled alert
SeededNewIncident ==
  LET n == Len(incidents)
      new == incidents'[n + 1]
  IN /\ Len(incidents') = n + 1
     /\ \A i \in 1..n : incidents'[i] = incidents[i]
     /\ \A i \in 1..n : incidents[i].id # new.id
     /\ new.status = "active"
     /\ new.startedAt = now
     /\ Len(new.alertIds) = 1
     /\ TruthyNum(emitted'[1].id) => new.alertIds[1] = emitted'[1].id
     /\ \A i \in 1..n : \A k \in 1..Len(incidents[i].alertIds) :
          incidents[i].alertIds[k] # new.alertIds[1]
     /\ Len(new.timeline) = 1
     /\ new.timeline[1].timestamp = now
     /\ Cardinality(EmittedOfType("incident.created")) = 1
     /\ \A k \in EmittedOfType("incident.created") : emitted'[k].incidentId = new.id
     /\ EmittedOfType("incident.updated") = {}

\* the step appended the handled alert to one stored incident
AppendedToIncident ==
  /\ Len(incidents') = Len(incidents)
  /\ \E i \in 1..Len(incidents) :
       /\ Len(incidents'[i].alertIds) = Len(incidents[i].alertIds) + 1
       /\ Len(incidents'[i].timeline) = Len(incidents[i].timeline) + 1
       /\ \A j \in 1..Len(incidents) : j # i => incidents'[j] = incidents[j]
       /\ \A k \in EmittedOfType("incident.updated") :
            emitted'[k].incidentId = incidents[i].id
  /\ Cardinality(EmittedOfType("incident.updated")) = 1
  /\ EmittedOfType("incident.created") = {}

\* C25: every handled alert.created is recorded in exactly one incident, a new
\* one (active, one alert id, one timeline entry, incident.created once) or one
\* existing one (incident.updated once); with no non-resolved incident started
\* within the last 2 minutes the incident is a new, distinct one.
C25_AlertRecordedInOneIncident ==
  [][ AlertHandled =>
        /\ Cardinality(EmittedOfType("alert.created")) = 1
        /\ SeededNewIncident \/ AppendedToIncident
        /\ OpenRecent = {} => SeededNewIncident ]_vars

\* a second incident has just been created for an alert that came two minutes
\* or more after a still open incident started
C25_Witness ==
  /\ Len(incidents) >= 2
  /\ incidents[1].status # "resolved"
  /\ incidents[Len(incidents)].startedAt >= incidents[1].startedAt + CorrelationWindow
  /\ incidents[Len(incidents)].startedAt = now
  /\ Len(emitted) = 2
  /\ emitted[1].type = "alert.created"
  /\ emitted[2].type = "incident.created"
  /\ emitted[2].incidentId = incidents[Len(incidents)].id

\* C26: a mission route or an incident update called with an unknown id answers
\* not_found, changes no mission, no incident and not the active-mission
\* pointer, and publishes nothing; a not_found answer never comes with a change.
C26_NotFoundChangesNothing ==
  [][ /\ (\E id \in RequestIds : MissionNotFound(id) \/ UpdateIncidentNotFound(id))
           => result' = "not_found"
      /\ result' = "not_found" =>
           /\ UNCHANGED <<heap, missions, activeMission, incidents, alertQueue, nextUuid>>
           /\ emitted' = <<>> /\ delivered' = <<>> /\ ~threw' ]_vars

\* a request for an unknown id has been answered while a mission is active
\* and an incident is stored
C26_Witness ==
  /\ result = "not_found"
  /\ activeMission # NoId
  /\ incidents # <<>>
  /\ \E id \in RequestIds : MissionIndex(id) = NoId /\ IncidentIndex(id) # NoId

\* C27: the playbackSpeed of every stored mission lies within [0.1, 10] (in
\* tenths: MinSpeed..MaxSpeed) in every reachable state.
C27_SpeedWithinRange ==
  \A i \in 1..Len(missions) : heap[missions[i].ref].playbackSpeed \in MinSpeed..MaxSpeed

CanSubscribe(n, t) ==
  IF NodeIndex(nodes, n) = NoId THEN FALSE
  ELSE t \in nodes[NodeIndex(nodes, n)].subscribe

\* publishCommand on (n, t) passes validation
CanPublish(n, t) ==
  IF NodeIndex(nodes, n) = NoId THEN FALSE
  ELSE t \in nodes[NodeIndex(nodes, n)].publish

\* C29: subscribeTelemetry on an unknown node or a topic outside the node's
\* subscribe set starts no telemetry loop, publishCommand on an unknown node or
\* a topic outside the node's publish set creates no command record; both answer
\* with an error, leave the nodes unchanged and publish nothing.
C29_InvalidRequestsRejected ==
  [][ /\ \A n \in NodeInputs, t \in TopicInputs :
           /\ ~CanSubscribe(n, t) => ~SubscribeTelemetry(n, t)
           /\ SubscribeRejected(n, t) => ~CanSubscribe(n, t) /\ result' = "error"
      /\ \A n \in NodeInputs, t \in CommandTopicInputs :
           /\ ~CanPublish(n, t) => \A d \in AckDelays : ~PublishCommand(n, t, d)
           /\ PublishCommandRejected(n, t) => ~CanPublish(n, t) /\ result' = "error"
      /\ result' = "error" =>
           /\ UNCHANGED <<loops, commandHistory, nodes, telemetryBuffer>>
           /\ emitted' = <<>> /\ delivered' = <<>> ]_vars

\* a request has been rejected while a telemetry loop runs and a command is stored
C29_Witness ==
  /\ result = "error"
  /\ loops # <<>>
  /\ commandHistory # <<>>
  /\ \E n \in NodeInputs, t \in TopicInputs : ~CanSubscribe(n, t)
  /\ \E n \in NodeInputs, t \in CommandTopicInputs : ~CanPublish(n, t)

\* number of bus subscriptions of stream client c
Subscriptions(c) ==
  Cardinality({ i \in 1..Len(listeners) : listeners[i] = StreamListener(c) })

\* C30: a connected stream client has exactly one bus subscription and a tick
\* timer; a client that has disconnected has neither, and nothing published
\* afterwards is written to it, while every client still connected is called
\* with every event published (in a step where no listener raised).
C30_SubscriptionFollowsConnection ==
  /\ \A c \in Clients : Subscriptions(c) = IF c \in tickTimers THEN 1 ELSE 0
  /\ \A c \in closed : Subscriptions(c) = 0 /\ c \notin tickTimers
  /\ \A j \in 1..Len(delivered) :
       delivered[j].listener.kind = "stream" => delivered[j].listener.client \notin closed
  /\ ~threw =>
       \A c \in Connected : \A k \in 1..Len(emitted) :
         \E j \in 1..Len(delivered) :
           delivered[j] = [listener |-> StreamListener(c), event |-> emitted[k]]

\* an alert has been published after one client disconnected, and the client
\* that is still connected was called with it
C30_Witness ==
  /\ closed # {}
  /\ Connected # {}
  /\ Connected \cap closed = {}
  /\ ~threw
  /\ \E k \in 1..Len(emitted) : emitted[k].type = "alert.created"
  /\ \E c \in Connected : \E j \in 1..Len(delivered) :
       delivered[j].listener = StreamListener(c) /\ delivered[j].event.type = "alert.created"

\* C31: addAlert appends exactly one alert with the given message and
\* severity, returns that alert's id, and appends exactly one timeline event of
\* type alert with the same message and severity.
C31_AddAlertAppendsAlertAndEvent ==
  [][ \A alert \in AlertInputs :
        AddAlert(alert) =>
          LET n == Len(alerts)
              m == Len(timelineEvents)
          IN /\ Len(alerts') = n + 1
             /\ SubSeq(alerts', 1, n) = alerts
             /\ alerts'[n + 1].message = alert.message
             /\ alerts'[n + 1].severity = alert.severity
             /\ returnedId' = alerts'[n + 1].id
             /\ \A i \in 1..n : alerts[i].id # returnedId'
             /\ Len(timelineEvents') = m + 1
             /\ SubSeq(timelineEvents', 1, m) = timelineEvents
             /\ timelineEvents'[m + 1].type = "alert"
             /\ timelineEvents'[m + 1].message = alert.message
             /\ timelineEvents'[m + 1].severity = alert.severity ]_vars

\* a second alert has just been added: it is the last of the list, its id was
\* returned, and the last timeline event carries its message and severity
C31_Witness ==
  /\ Len(alerts) >= 2
  /\ returnedId = alerts[Len(alerts)].id
  /\ alerts[Len(alerts)].message = "Test alert"
  /\ timelineEvents # <<>>
  /\ timelineEvents[Len(timelineEvents)].type = "alert"
  /\ timelineEvents[Len(timelineEvents)].message = "Test alert"
  /\ timelineEvents[Len(timelineEvents)].severity = "warning"

\* ids of the alerts in a list
AlertIds(list) == { list[i].id : i \in 1..Len(list) }

C33_WindowEndsWithOwnSample ==
  [][ \A k \in 1..Len(pending) :
        ResumeFlow(k) =>
          /\ k = Len(pending)
          /\ Window[Len(Window)] = pending[k] ]_vars

\* C34: while the active-mission pointer is set, the mission stored under the
\* pointer's id is the record the pointer refers to and has status active;
\* pausing or stopping another mission leaves the pointer as it is.
C34_PointerIsStoredActiveMission ==
  /\ [](activeMission # NoId =>
          /\ MissionIndex(heap[activeMission].id) # NoId
          /\ MissionRef(heap[activeMission].id) = activeMission
          /\ heap[activeMission].status = "active")
  /\ [][ \A id \in MissionIds :
           ((PauseMission(id) \/ StopMission(id))
              /\ activeMission # NoId /\ heap[activeMission].id # id) =>
             /\ activeMission' # NoId
             /\ heap'[activeMission'] = heap[activeMission] ]_vars

\* the second mission has been paused while the pointer refers to the first,
\* which is stored as active
C34_Witness ==
  /\ Len(missions) = 2
  /\ activeMission = missions[1].ref
  /\ StoredAt(1).status = "active"
  /\ StoredAt(2).status = "paused"
  /\ result = "ok" /\ emitted = <<>>

\* C35: every stored mission with status active has startedAt set
C35_ActiveHasStartedAt ==
  \A i \in 1..Len(missions) :
    StoredAt(i).status = "active" => StoredAt(i).startedAt # NoTime

\* C36: a node that is offline leaves that health only in a step that
\* registers a node under its id: no telemetry delivery and no heartbeat tick
\* changes the health of an offline node; and a node once in the map stays in
\* the map, at its place
C36_OfflineUntilRegisteredAgain ==
  [][ \A i \in 1..Len(nodes) :
        /\ i <= Len(nodes') /\ nodes'[i].nodeId = nodes[i].nodeId
        /\ (nodes[i].health = "offline" /\ nodes'[i].health # "offline") =>
             /\ \E node \in RegisterInputs :
                  node.nodeId = nodes[i].nodeId /\ RegisterNode(node)
             /\ loops' = loops /\ heartbeatDue' = heartbeatDue ]_vars

\* the robot is offline and has stayed so through a telemetry delivery of one
\* of its loops and a later heartbeat tick; the gateway was never registered
\* again and is offline and in the map as well
C36_Witness ==
  /\ nodes[1].health = "offline"
  /\ nodes[2].health = "offline"
  /\ nodes[1].lastSeen < now
  /\ \E k \in 1..Len(telemetryBuffer) :
       /\ telemetryBuffer[k].nodeId = Robot
       /\ telemetryBuffer[k].timestamp > nodes[1].lastSeen
  /\ heartbeatDue > nodes[1].lastSeen + HeartbeatInterval
  /\ heartbeatDue > now

\* C37: at most one telemetry loop runs per (node, topic) pair, and the
\* deliveries recorded for one pair lie at least one telemetry period apart
C37_OneLoopPerPair ==
  /\ \A j, k \in 1..Len(loops) :
       (loops[j].nodeId = loops[k].nodeId /\ loops[j].topic = loops[k].topic) => j = k
  /\ \A j, k \in 1..Len(telemetryBuffer) :
       (j < k /\ telemetryBuffer[j].nodeId = telemetryBuffer[k].nodeId
              /\ telemetryBuffer[j].topic = telemetryBuffer[k].topic) =>
         telemetryBuffer[k].timestamp - telemetryBuffer[j].timestamp >= TelemetryPeriod

\* the actuation timer of actuation a is pending
ActuationPending(a) == \E k \in 1..Len(actuationTimers) : actuationTimers[k].actuationId = a

\* the valve of the pending actuation a
ValveOfActuation(a) ==
  actuationTimers[CHOOSE k \in 1..Len(actuationTimers) : actuationTimers[k].actuationId = a].valveId

\* C38: an actuate request on a known valve publishes valve.actuation.requested
\* in the request and leaves one pending completion; each pending completion
\* ends, and ends in a step that publishes exactly one
\* valve.actuation.completed for its valve with the torque the store then
\* holds for that valve, other pending completions staying pending; completed
\* is published by nothing else; a request for an unknown valve publishes
\* nothing, sets no timer and leaves the store alone
C38_ActuationRequestedThenCompletedOnce ==
  /\ [][ \A id \in ValveInputs :
           ActuateValve(id) =>
             IF ValveIndex(id) # NoId
             THEN /\ Len(emitted') = 1
                  /\ emitted'[1].type = "valve.actuation.requested"
                  /\ emitted'[1].valveId = id
                  /\ result' = "ok"
                  /\ Len(actuationTimers') = Len(actuationTimers) + 1
                  /\ actuationTimers'[Len(actuationTimers')].valveId = id
                  /\ ~ActuationPending(actuationTimers'[Len(actuationTimers')].actuationId)
                  /\ \A k \in 1..Len(actuationTimers) : actuationTimers'[k] = actuationTimers[k]
                  /\ valveStore' = valveStore
             ELSE /\ emitted' = <<>>
                  /\ result' = "not_found"
                  /\ UNCHANGED <<actuationTimers, valveStore, incidents, alertQueue>> ]_vars
  /\ [][ \A a \in 1..MaxActuations :
           (ActuationPending(a) /\ ~ActuationPending(a)') =>
             /\ Len(emitted') = 1
             /\ emitted'[1].type = "valve.actuation.completed"
             /\ emitted'[1].valveId = ValveOfActuation(a)
             /\ valveStore'[ValveOfActuation(a)].lastTorqueNm = emitted'[1].torqueNm
             /\ Len(actuationTimers') = Len(actuationTimers) - 1 ]_vars
  /\ [][ (\E k \in 1..Len(emitted') : emitted'[k].type = "valve.actuation.completed") =>
           Len(actuationTimers') = Len(actuationTimers) - 1 ]_vars
  /\ \A a \in 1..MaxActuations : ActuationPending(a) ~> ~ActuationPending(a)

\* two actuations of v-101 overlapped: the first has completed and its torque
\* is in the store, the second is still pending
C38_Witness ==
  /\ Len(actuationTimers) = 1
  /\ actuationTimers[1].valveId = "v-101"
  /\ actuationTimers[1].actuationId = 2
  /\ actuationTimers[1].requestedAt = 0
  /\ Len(emitted) = 1
  /\ emitted[1].type = "valve.actuation.completed"
  /\ emitted[1].valveId = "v-101"
  /\ valveStore["v-101"].lastTorqueNm = emitted[1].torqueNm

\* the alerts queued for a valve from the day its maintenance is due, from
\* which day on its computed status is maintenance on every read
OverdueAlerts(v) ==
  { k \in 1..Len(alertQueue) :
      /\ alertQueue[k].valveId = v
      /\ alertQueue[k].at >= valveInventory[ValveIndex(v)].estimatedMaintenance }

\* C39: reads of a valve whose computed status stays the same publish at most
\* one alert.created for it: once its maintenance is due the status is
\* maintenance for good, and at most one alert is published for that change
C39_OneAlertPerStatusChange ==
  \A v \in ValveIds : Cardinality(OverdueAlerts(v)) <= 1

====
